---- MODULE Spec2Model ----
(***************************************************************************)
(* The retrieval-and-filter pipeline of the assessment recommender         *)
(* (src/queryprocessor.py): QueryProcessor.extract_constraints,            *)
(* QueryProcessor.filter_assessments and QueryProcessor.process_query.     *)
(*                                                                         *)
(* A Python str is modelled as the sequence of its Unicode code points, so *)
(* that the regular expressions of the source are computed character by    *)
(* character; a literal is written with its text in a comment before it.   *)
(* A Python dict is a function whose domain is its key set.                *)
(***************************************************************************)
EXTENDS Integers, Sequences, FiniteSets, TLC

(***************************************************************************)
(* Bounds of the model.                                                    *)
(***************************************************************************)
\* longest assessment list handed to filter_assessments / returned by search
MaxLen == 3
\* most fragments concatenated into one query string
MaxFrags == 3
\* largest max_results passed to process_query
MaxResults == 3

(***************************************************************************)
(* Characters and the character classes of Python's re module.  The        *)
(* patterns of the source are str patterns, so \d, \s, \w, \b and          *)
(* str.lower() follow the Unicode database of the interpreter; the tables  *)
(* list it range by range.                                                 *)
(***************************************************************************)
\* the characters of \s and of str.strip(): str.isspace()
SpaceChars ==
  {
    9, 10, 11, 12, 13, 28, 29, 30, 31, 32, 133, 160, 5760, 8192, 8193, 8194,
    8195, 8196, 8197, 8198, 8199, 8200, 8201, 8202, 8232, 8233, 8239, 8287,
    12288
  }

\* the digit zero of every decimal number system (category Nd); the
\* digits one to nine follow it
DigitZeros ==
  {
    48, 1632, 1776, 1984, 2406, 2534, 2662, 2790, 2918, 3046, 3174, 3302,
    3430, 3558, 3664, 3792, 3872, 4160, 4240, 6112, 6160, 6470, 6608, 6784,
    6800, 6992, 7088, 7232, 7248, 42528, 43216, 43264, 43472, 43504, 43600,
    44016, 65296, 66720, 68912, 69734, 69872, 69942, 70096, 70384, 70736,
    70864, 71248, 71360, 71472, 71904, 72016, 72784, 73040, 73120, 92768,
    92864, 93008, 120782, 120792, 120802, 120812, 120822, 123200, 123632,
    125264, 130032
  }

\* the ranges <<first, last>> of the characters of \w: str.isalnum() and "_"
WordRanges ==
  {
    <<48, 57>>, <<65, 90>>, <<95, 95>>, <<97, 122>>, <<170, 170>>,
    <<178, 179>>, <<181, 181>>, <<185, 186>>, <<188, 190>>, <<192, 214>>,
    <<216, 246>>, <<248, 705>>, <<710, 721>>, <<736, 740>>, <<748, 748>>,
    <<750, 750>>, <<880, 884>>, <<886, 887>>, <<890, 893>>, <<895, 895>>,
    <<902, 902>>, <<904, 906>>, <<908, 908>>, <<910, 929>>, <<931, 1013>>,
    <<1015, 1153>>, <<1162, 1327>>, <<1329, 1366>>, <<1369, 1369>>,
    <<1376, 1416>>, <<1488, 1514>>, <<1519, 1522>>, <<1568, 1610>>,
    <<1632, 1641>>, <<1646, 1647>>, <<1649, 1747>>, <<1749, 1749>>,
    <<1765, 1766>>, <<1774, 1788>>, <<1791, 1791>>, <<1808, 1808>>,
    <<1810, 1839>>, <<1869, 1957>>, <<1969, 1969>>, <<1984, 2026>>,
    <<2036, 2037>>, <<2042, 2042>>, <<2048, 2069>>, <<2074, 2074>>,
    <<2084, 2084>>, <<2088, 2088>>, <<2112, 2136>>, <<2144, 2154>>,
    <<2160, 2183>>, <<2185, 2190>>, <<2208, 2249>>, <<2308, 2361>>,
    <<2365, 2365>>, <<2384, 2384>>, <<2392, 2401>>, <<2406, 2415>>,
    <<2417, 2432>>, <<2437, 2444>>, <<2447, 2448>>, <<2451, 2472>>,
    <<2474, 2480>>, <<2482, 2482>>, <<2486, 2489>>, <<2493, 2493>>,
    <<2510, 2510>>, <<2524, 2525>>, <<2527, 2529>>, <<2534, 2545>>,
    <<2548, 2553>>, <<2556, 2556>>, <<2565, 2570>>, <<2575, 2576>>,
    <<2579, 2600>>, <<2602, 2608>>, <<2610, 2611>>, <<2613, 2614>>,
    <<2616, 2617>>, <<2649, 2652>>, <<2654, 2654>>, <<2662, 2671>>,
    <<2674, 2676>>, <<2693, 2701>>, <<2703, 2705>>, <<2707, 2728>>,
    <<2730, 2736>>, <<2738, 2739>>, <<2741, 2745>>, <<2749, 2749>>,
    <<2768, 2768>>, <<2784, 2785>>, <<2790, 2799>>, <<2809, 2809>>,
    <<2821, 2828>>, <<2831, 2832>>, <<2835, 2856>>, <<2858, 2864>>,
    <<2866, 2867>>, <<2869, 2873>>, <<2877, 2877>>, <<2908, 2909>>,
    <<2911, 2913>>, <<2918, 2927>>, <<2929, 2935>>, <<2947, 2947>>,
    <<2949, 2954>>, <<2958, 2960>>, <<2962, 2965>>, <<2969, 2970>>,
    <<2972, 2972>>, <<2974, 2975>>, <<2979, 2980>>, <<2984, 2986>>,
    <<2990, 3001>>, <<3024, 3024>>, <<3046, 3058>>, <<3077, 3084>>,
    <<3086, 3088>>, <<3090, 3112>>, <<3114, 3129>>, <<3133, 3133>>,
    <<3160, 3162>>, <<3165, 3165>>, <<3168, 3169>>, <<3174, 3183>>,
    <<3192, 3198>>, <<3200, 3200>>, <<3205, 3212>>, <<3214, 3216>>,
    <<3218, 3240>>, <<3242, 3251>>, <<3253, 3257>>, <<3261, 3261>>,
    <<3293, 3294>>, <<3296, 3297>>, <<3302, 3311>>, <<3313, 3314>>,
    <<3332, 3340>>, <<3342, 3344>>, <<3346, 3386>>, <<3389, 3389>>,
    <<3406, 3406>>, <<3412, 3414>>, <<3416, 3425>>, <<3430, 3448>>,
    <<3450, 3455>>, <<3461, 3478>>, <<3482, 3505>>, <<3507, 3515>>,
    <<3517, 3517>>, <<3520, 3526>>, <<3558, 3567>>, <<3585, 3632>>,
    <<3634, 3635>>, <<3648, 3654>>, <<3664, 3673>>, <<3713, 3714>>,
    <<3716, 3716>>, <<3718, 3722>>, <<3724, 3747>>, <<3749, 3749>>,
    <<3751, 3760>>, <<3762, 3763>>, <<3773, 3773>>, <<3776, 3780>>,
    <<3782, 3782>>, <<3792, 3801>>, <<3804, 3807>>, <<3840, 3840>>,
    <<3872, 3891>>, <<3904, 3911>>, <<3913, 3948>>, <<3976, 3980>>,
    <<4096, 4138>>, <<4159, 4169>>, <<4176, 4181>>, <<4186, 4189>>,
    <<4193, 4193>>, <<4197, 4198>>, <<4206, 4208>>, <<4213, 4225>>,
    <<4238, 4238>>, <<4240, 4249>>, <<4256, 4293>>, <<4295, 4295>>,
    <<4301, 4301>>, <<4304, 4346>>, <<4348, 4680>>, <<4682, 4685>>,
    <<4688, 4694>>, <<4696, 4696>>, <<4698, 4701>>, <<4704, 4744>>,
    <<4746, 4749>>, <<4752, 4784>>, <<4786, 4789>>, <<4792, 4798>>,
    <<4800, 4800>>, <<4802, 4805>>, <<4808, 4822>>, <<4824, 4880>>,
    <<4882, 4885>>, <<4888, 4954>>, <<4969, 4988>>, <<4992, 5007>>,
    <<5024, 5109>>, <<5112, 5117>>, <<5121, 5740>>, <<5743, 5759>>,
    <<5761, 5786>>, <<5792, 5866>>, <<5870, 5880>>, <<5888, 5905>>,
    <<5919, 5937>>, <<5952, 5969>>, <<5984, 5996>>, <<5998, 6000>>,
    <<6016, 6067>>, <<6103, 6103>>, <<6108, 6108>>, <<6112, 6121>>,
    <<6128, 6137>>, <<6160, 6169>>, <<6176, 6264>>, <<6272, 6276>>,
    <<6279, 6312>>, <<6314, 6314>>, <<6320, 6389>>, <<6400, 6430>>,
    <<6470, 6509>>, <<6512, 6516>>, <<6528, 6571>>, <<6576, 6601>>,
    <<6608, 6618>>, <<6656, 6678>>, <<6688, 6740>>, <<6784, 6793>>,
    <<6800, 6809>>, <<6823, 6823>>, <<6917, 6963>>, <<6981, 6988>>,
    <<6992, 7001>>, <<7043, 7072>>, <<7086, 7141>>, <<7168, 7203>>,
    <<7232, 7241>>, <<7245, 7293>>, <<7296, 7304>>, <<7312, 7354>>,
    <<7357, 7359>>, <<7401, 7404>>, <<7406, 7411>>, <<7413, 7414>>,
    <<7418, 7418>>, <<7424, 7615>>, <<7680, 7957>>, <<7960, 7965>>,
    <<7968, 8005>>, <<8008, 8013>>, <<8016, 8023>>, <<8025, 8025>>,
    <<8027, 8027>>, <<8029, 8029>>, <<8031, 8061>>, <<8064, 8116>>,
    <<8118, 8124>>, <<8126, 8126>>, <<8130, 8132>>, <<8134, 8140>>,
    <<8144, 8147>>, <<8150, 8155>>, <<8160, 8172>>, <<8178, 8180>>,
    <<8182, 8188>>, <<8304, 8305>>, <<8308, 8313>>, <<8319, 8329>>,
    <<8336, 8348>>, <<8450, 8450>>, <<8455, 8455>>, <<8458, 8467>>,
    <<8469, 8469>>, <<8473, 8477>>, <<8484, 8484>>, <<8486, 8486>>,
    <<8488, 8488>>, <<8490, 8493>>, <<8495, 8505>>, <<8508, 8511>>,
    <<8517, 8521>>, <<8526, 8526>>, <<8528, 8585>>, <<9312, 9371>>,
    <<9450, 9471>>, <<10102, 10131>>, <<11264, 11492>>, <<11499, 11502>>,
    <<11506, 11507>>, <<11517, 11517>>, <<11520, 11557>>, <<11559, 11559>>,
    <<11565, 11565>>, <<11568, 11623>>, <<11631, 11631>>, <<11648, 11670>>,
    <<11680, 11686>>, <<11688, 11694>>, <<11696, 11702>>, <<11704, 11710>>,
    <<11712, 11718>>, <<11720, 11726>>, <<11728, 11734>>, <<11736, 11742>>,
    <<11823, 11823>>, <<12293, 12295>>, <<12321, 12329>>, <<12337, 12341>>,
    <<12344, 12348>>, <<12353, 12438>>, <<12445, 12447>>, <<12449, 12538>>,
    <<12540, 12543>>, <<12549, 12591>>, <<12593, 12686>>, <<12690, 12693>>,
    <<12704, 12735>>, <<12784, 12799>>, <<12832, 12841>>, <<12872, 12879>>,
    <<12881, 12895>>, <<12928, 12937>>, <<12977, 12991>>, <<13312, 19903>>,
    <<19968, 42124>>, <<42192, 42237>>, <<42240, 42508>>, <<42512, 42539>>,
    <<42560, 42606>>, <<42623, 42653>>, <<42656, 42735>>, <<42775, 42783>>,
    <<42786, 42888>>, <<42891, 42954>>, <<42960, 42961>>, <<42963, 42963>>,
    <<42965, 42969>>, <<42994, 43009>>, <<43011, 43013>>, <<43015, 43018>>,
    <<43020, 43042>>, <<43056, 43061>>, <<43072, 43123>>, <<43138, 43187>>,
    <<43216, 43225>>, <<43250, 43255>>, <<43259, 43259>>, <<43261, 43262>>,
    <<43264, 43301>>, <<43312, 43334>>, <<43360, 43388>>, <<43396, 43442>>,
    <<43471, 43481>>, <<43488, 43492>>, <<43494, 43518>>, <<43520, 43560>>,
    <<43584, 43586>>, <<43588, 43595>>, <<43600, 43609>>, <<43616, 43638>>,
    <<43642, 43642>>, <<43646, 43695>>, <<43697, 43697>>, <<43701, 43702>>,
    <<43705, 43709>>, <<43712, 43712>>, <<43714, 43714>>, <<43739, 43741>>,
    <<43744, 43754>>, <<43762, 43764>>, <<43777, 43782>>, <<43785, 43790>>,
    <<43793, 43798>>, <<43808, 43814>>, <<43816, 43822>>, <<43824, 43866>>,
    <<43868, 43881>>, <<43888, 44002>>, <<44016, 44025>>, <<44032, 55203>>,
    <<55216, 55238>>, <<55243, 55291>>, <<63744, 64109>>, <<64112, 64217>>,
    <<64256, 64262>>, <<64275, 64279>>, <<64285, 64285>>, <<64287, 64296>>,
    <<64298, 64310>>, <<64312, 64316>>, <<64318, 64318>>, <<64320, 64321>>,
    <<64323, 64324>>, <<64326, 64433>>, <<64467, 64829>>, <<64848, 64911>>,
    <<64914, 64967>>, <<65008, 65019>>, <<65136, 65140>>, <<65142, 65276>>,
    <<65296, 65305>>, <<65313, 65338>>, <<65345, 65370>>, <<65382, 65470>>,
    <<65474, 65479>>, <<65482, 65487>>, <<65490, 65495>>, <<65498, 65500>>,
    <<65536, 65547>>, <<65549, 65574>>, <<65576, 65594>>, <<65596, 65597>>,
    <<65599, 65613>>, <<65616, 65629>>, <<65664, 65786>>, <<65799, 65843>>,
    <<65856, 65912>>, <<65930, 65931>>, <<66176, 66204>>, <<66208, 66256>>,
    <<66273, 66299>>, <<66304, 66339>>, <<66349, 66378>>, <<66384, 66421>>,
    <<66432, 66461>>, <<66464, 66499>>, <<66504, 66511>>, <<66513, 66517>>,
    <<66560, 66717>>, <<66720, 66729>>, <<66736, 66771>>, <<66776, 66811>>,
    <<66816, 66855>>, <<66864, 66915>>, <<66928, 66938>>, <<66940, 66954>>,
    <<66956, 66962>>, <<66964, 66965>>, <<66967, 66977>>, <<66979, 66993>>,
    <<66995, 67001>>, <<67003, 67004>>, <<67072, 67382>>, <<67392, 67413>>,
    <<67424, 67431>>, <<67456, 67461>>, <<67463, 67504>>, <<67506, 67514>>,
    <<67584, 67589>>, <<67592, 67592>>, <<67594, 67637>>, <<67639, 67640>>,
    <<67644, 67644>>, <<67647, 67669>>, <<67672, 67702>>, <<67705, 67742>>,
    <<67751, 67759>>, <<67808, 67826>>, <<67828, 67829>>, <<67835, 67867>>,
    <<67872, 67897>>, <<67968, 68023>>, <<68028, 68047>>, <<68050, 68096>>,
    <<68112, 68115>>, <<68117, 68119>>, <<68121, 68149>>, <<68160, 68168>>,
    <<68192, 68222>>, <<68224, 68255>>, <<68288, 68295>>, <<68297, 68324>>,
    <<68331, 68335>>, <<68352, 68405>>, <<68416, 68437>>, <<68440, 68466>>,
    <<68472, 68497>>, <<68521, 68527>>, <<68608, 68680>>, <<68736, 68786>>,
    <<68800, 68850>>, <<68858, 68899>>, <<68912, 68921>>, <<69216, 69246>>,
    <<69248, 69289>>, <<69296, 69297>>, <<69376, 69415>>, <<69424, 69445>>,
    <<69457, 69460>>, <<69488, 69505>>, <<69552, 69579>>, <<69600, 69622>>,
    <<69635, 69687>>, <<69714, 69743>>, <<69745, 69746>>, <<69749, 69749>>,
    <<69763, 69807>>, <<69840, 69864>>, <<69872, 69881>>, <<69891, 69926>>,
    <<69942, 69951>>, <<69956, 69956>>, <<69959, 69959>>, <<69968, 70002>>,
    <<70006, 70006>>, <<70019, 70066>>, <<70081, 70084>>, <<70096, 70106>>,
    <<70108, 70108>>, <<70113, 70132>>, <<70144, 70161>>, <<70163, 70187>>,
    <<70272, 70278>>, <<70280, 70280>>, <<70282, 70285>>, <<70287, 70301>>,
    <<70303, 70312>>, <<70320, 70366>>, <<70384, 70393>>, <<70405, 70412>>,
    <<70415, 70416>>, <<70419, 70440>>, <<70442, 70448>>, <<70450, 70451>>,
    <<70453, 70457>>, <<70461, 70461>>, <<70480, 70480>>, <<70493, 70497>>,
    <<70656, 70708>>, <<70727, 70730>>, <<70736, 70745>>, <<70751, 70753>>,
    <<70784, 70831>>, <<70852, 70853>>, <<70855, 70855>>, <<70864, 70873>>,
    <<71040, 71086>>, <<71128, 71131>>, <<71168, 71215>>, <<71236, 71236>>,
    <<71248, 71257>>, <<71296, 71338>>, <<71352, 71352>>, <<71360, 71369>>,
    <<71424, 71450>>, <<71472, 71483>>, <<71488, 71494>>, <<71680, 71723>>,
    <<71840, 71922>>, <<71935, 71942>>, <<71945, 71945>>, <<71948, 71955>>,
    <<71957, 71958>>, <<71960, 71983>>, <<71999, 71999>>, <<72001, 72001>>,
    <<72016, 72025>>, <<72096, 72103>>, <<72106, 72144>>, <<72161, 72161>>,
    <<72163, 72163>>, <<72192, 72192>>, <<72203, 72242>>, <<72250, 72250>>,
    <<72272, 72272>>, <<72284, 72329>>, <<72349, 72349>>, <<72368, 72440>>,
    <<72704, 72712>>, <<72714, 72750>>, <<72768, 72768>>, <<72784, 72812>>,
    <<72818, 72847>>, <<72960, 72966>>, <<72968, 72969>>, <<72971, 73008>>,
    <<73030, 73030>>, <<73040, 73049>>, <<73056, 73061>>, <<73063, 73064>>,
    <<73066, 73097>>, <<73112, 73112>>, <<73120, 73129>>, <<73440, 73458>>,
    <<73648, 73648>>, <<73664, 73684>>, <<73728, 74649>>, <<74752, 74862>>,
    <<74880, 75075>>, <<77712, 77808>>, <<77824, 78894>>, <<82944, 83526>>,
    <<92160, 92728>>, <<92736, 92766>>, <<92768, 92777>>, <<92784, 92862>>,
    <<92864, 92873>>, <<92880, 92909>>, <<92928, 92975>>, <<92992, 92995>>,
    <<93008, 93017>>, <<93019, 93025>>, <<93027, 93047>>, <<93053, 93071>>,
    <<93760, 93846>>, <<93952, 94026>>, <<94032, 94032>>, <<94099, 94111>>,
    <<94176, 94177>>, <<94179, 94179>>, <<94208, 100343>>,
    <<100352, 101589>>, <<101632, 101640>>, <<110576, 110579>>,
    <<110581, 110587>>, <<110589, 110590>>, <<110592, 110882>>,
    <<110928, 110930>>, <<110948, 110951>>, <<110960, 111355>>,
    <<113664, 113770>>, <<113776, 113788>>, <<113792, 113800>>,
    <<113808, 113817>>, <<119520, 119539>>, <<119648, 119672>>,
    <<119808, 119892>>, <<119894, 119964>>, <<119966, 119967>>,
    <<119970, 119970>>, <<119973, 119974>>, <<119977, 119980>>,
    <<119982, 119993>>, <<119995, 119995>>, <<119997, 120003>>,
    <<120005, 120069>>, <<120071, 120074>>, <<120077, 120084>>,
    <<120086, 120092>>, <<120094, 120121>>, <<120123, 120126>>,
    <<120128, 120132>>, <<120134, 120134>>, <<120138, 120144>>,
    <<120146, 120485>>, <<120488, 120512>>, <<120514, 120538>>,
    <<120540, 120570>>, <<120572, 120596>>, <<120598, 120628>>,
    <<120630, 120654>>, <<120656, 120686>>, <<120688, 120712>>,
    <<120714, 120744>>, <<120746, 120770>>, <<120772, 120779>>,
    <<120782, 120831>>, <<122624, 122654>>, <<123136, 123180>>,
    <<123191, 123197>>, <<123200, 123209>>, <<123214, 123214>>,
    <<123536, 123565>>, <<123584, 123627>>, <<123632, 123641>>,
    <<124896, 124902>>, <<124904, 124907>>, <<124909, 124910>>,
    <<124912, 124926>>, <<124928, 125124>>, <<125127, 125135>>,
    <<125184, 125251>>, <<125259, 125259>>, <<125264, 125273>>,
    <<126065, 126123>>, <<126125, 126127>>, <<126129, 126132>>,
    <<126209, 126253>>, <<126255, 126269>>, <<126464, 126467>>,
    <<126469, 126495>>, <<126497, 126498>>, <<126500, 126500>>,
    <<126503, 126503>>, <<126505, 126514>>, <<126516, 126519>>,
    <<126521, 126521>>, <<126523, 126523>>, <<126530, 126530>>,
    <<126535, 126535>>, <<126537, 126537>>, <<126539, 126539>>,
    <<126541, 126543>>, <<126545, 126546>>, <<126548, 126548>>,
    <<126551, 126551>>, <<126553, 126553>>, <<126555, 126555>>,
    <<126557, 126557>>, <<126559, 126559>>, <<126561, 126562>>,
    <<126564, 126564>>, <<126567, 126570>>, <<126572, 126578>>,
    <<126580, 126583>>, <<126585, 126588>>, <<126590, 126590>>,
    <<126592, 126601>>, <<126603, 126619>>, <<126625, 126627>>,
    <<126629, 126633>>, <<126635, 126651>>, <<127232, 127244>>,
    <<130032, 130041>>, <<131072, 173791>>, <<173824, 177976>>,
    <<177984, 178205>>, <<178208, 183969>>, <<183984, 191456>>,
    <<194560, 195101>>, <<196608, 201546>>
  }

\* str.lower() where it changes one character into one other: the runs
\* <<first, last, step, offset>> of characters first, first + step, ...,
\* last that become the character offset further
LowerRuns ==
  {
    <<65, 90, 1, 32>>, <<192, 214, 1, 32>>, <<216, 222, 1, 32>>,
    <<256, 302, 2, 1>>, <<306, 310, 2, 1>>, <<313, 327, 2, 1>>,
    <<330, 374, 2, 1>>, <<376, 376, 1, -121>>, <<377, 381, 2, 1>>,
    <<385, 385, 1, 210>>, <<386, 388, 2, 1>>, <<390, 390, 1, 206>>,
    <<391, 391, 1, 1>>, <<393, 394, 1, 205>>, <<395, 395, 1, 1>>,
    <<398, 398, 1, 79>>, <<399, 399, 1, 202>>, <<400, 400, 1, 203>>,
    <<401, 401, 1, 1>>, <<403, 403, 1, 205>>, <<404, 404, 1, 207>>,
    <<406, 406, 1, 211>>, <<407, 407, 1, 209>>, <<408, 408, 1, 1>>,
    <<412, 412, 1, 211>>, <<413, 413, 1, 213>>, <<415, 415, 1, 214>>,
    <<416, 420, 2, 1>>, <<422, 422, 1, 218>>, <<423, 423, 1, 1>>,
    <<425, 425, 1, 218>>, <<428, 428, 1, 1>>, <<430, 430, 1, 218>>,
    <<431, 431, 1, 1>>, <<433, 434, 1, 217>>, <<435, 437, 2, 1>>,
    <<439, 439, 1, 219>>, <<440, 440, 1, 1>>, <<444, 444, 1, 1>>,
    <<452, 452, 1, 2>>, <<453, 453, 1, 1>>, <<455, 455, 1, 2>>,
    <<456, 456, 1, 1>>, <<458, 458, 1, 2>>, <<459, 475, 2, 1>>,
    <<478, 494, 2, 1>>, <<497, 497, 1, 2>>, <<498, 500, 2, 1>>,
    <<502, 502, 1, -97>>, <<503, 503, 1, -56>>, <<504, 542, 2, 1>>,
    <<544, 544, 1, -130>>, <<546, 562, 2, 1>>, <<570, 570, 1, 10795>>,
    <<571, 571, 1, 1>>, <<573, 573, 1, -163>>, <<574, 574, 1, 10792>>,
    <<577, 577, 1, 1>>, <<579, 579, 1, -195>>, <<580, 580, 1, 69>>,
    <<581, 581, 1, 71>>, <<582, 590, 2, 1>>, <<880, 882, 2, 1>>,
    <<886, 886, 1, 1>>, <<895, 895, 1, 116>>, <<902, 902, 1, 38>>,
    <<904, 906, 1, 37>>, <<908, 908, 1, 64>>, <<910, 911, 1, 63>>,
    <<913, 929, 1, 32>>, <<931, 939, 1, 32>>, <<975, 975, 1, 8>>,
    <<984, 1006, 2, 1>>, <<1012, 1012, 1, -60>>, <<1015, 1015, 1, 1>>,
    <<1017, 1017, 1, -7>>, <<1018, 1018, 1, 1>>, <<1021, 1023, 1, -130>>,
    <<1024, 1039, 1, 80>>, <<1040, 1071, 1, 32>>, <<1120, 1152, 2, 1>>,
    <<1162, 1214, 2, 1>>, <<1216, 1216, 1, 15>>, <<1217, 1229, 2, 1>>,
    <<1232, 1326, 2, 1>>, <<1329, 1366, 1, 48>>, <<4256, 4293, 1, 7264>>,
    <<4295, 4295, 1, 7264>>, <<4301, 4301, 1, 7264>>,
    <<5024, 5103, 1, 38864>>, <<5104, 5109, 1, 8>>, <<7312, 7354, 1, -3008>>,
    <<7357, 7359, 1, -3008>>, <<7680, 7828, 2, 1>>, <<7838, 7838, 1, -7615>>,
    <<7840, 7934, 2, 1>>, <<7944, 7951, 1, -8>>, <<7960, 7965, 1, -8>>,
    <<7976, 7983, 1, -8>>, <<7992, 7999, 1, -8>>, <<8008, 8013, 1, -8>>,
    <<8025, 8031, 2, -8>>, <<8040, 8047, 1, -8>>, <<8072, 8079, 1, -8>>,
    <<8088, 8095, 1, -8>>, <<8104, 8111, 1, -8>>, <<8120, 8121, 1, -8>>,
    <<8122, 8123, 1, -74>>, <<8124, 8124, 1, -9>>, <<8136, 8139, 1, -86>>,
    <<8140, 8140, 1, -9>>, <<8152, 8153, 1, -8>>, <<8154, 8155, 1, -100>>,
    <<8168, 8169, 1, -8>>, <<8170, 8171, 1, -112>>, <<8172, 8172, 1, -7>>,
    <<8184, 8185, 1, -128>>, <<8186, 8187, 1, -126>>, <<8188, 8188, 1, -9>>,
    <<8486, 8486, 1, -7517>>, <<8490, 8490, 1, -8383>>,
    <<8491, 8491, 1, -8262>>, <<8498, 8498, 1, 28>>, <<8544, 8559, 1, 16>>,
    <<8579, 8579, 1, 1>>, <<9398, 9423, 1, 26>>, <<11264, 11311, 1, 48>>,
    <<11360, 11360, 1, 1>>, <<11362, 11362, 1, -10743>>,
    <<11363, 11363, 1, -3814>>, <<11364, 11364, 1, -10727>>,
    <<11367, 11371, 2, 1>>, <<11373, 11373, 1, -10780>>,
    <<11374, 11374, 1, -10749>>, <<11375, 11375, 1, -10783>>,
    <<11376, 11376, 1, -10782>>, <<11378, 11378, 1, 1>>,
    <<11381, 11381, 1, 1>>, <<11390, 11391, 1, -10815>>,
    <<11392, 11490, 2, 1>>, <<11499, 11501, 2, 1>>, <<11506, 11506, 1, 1>>,
    <<42560, 42604, 2, 1>>, <<42624, 42650, 2, 1>>, <<42786, 42798, 2, 1>>,
    <<42802, 42862, 2, 1>>, <<42873, 42875, 2, 1>>,
    <<42877, 42877, 1, -35332>>, <<42878, 42886, 2, 1>>,
    <<42891, 42891, 1, 1>>, <<42893, 42893, 1, -42280>>,
    <<42896, 42898, 2, 1>>, <<42902, 42920, 2, 1>>,
    <<42922, 42922, 1, -42308>>, <<42923, 42923, 1, -42319>>,
    <<42924, 42924, 1, -42315>>, <<42925, 42925, 1, -42305>>,
    <<42926, 42926, 1, -42308>>, <<42928, 42928, 1, -42258>>,
    <<42929, 42929, 1, -42282>>, <<42930, 42930, 1, -42261>>,
    <<42931, 42931, 1, 928>>, <<42932, 42946, 2, 1>>,
    <<42948, 42948, 1, -48>>, <<42949, 42949, 1, -42307>>,
    <<42950, 42950, 1, -35384>>, <<42951, 42953, 2, 1>>,
    <<42960, 42960, 1, 1>>, <<42966, 42968, 2, 1>>, <<42997, 42997, 1, 1>>,
    <<65313, 65338, 1, 32>>, <<66560, 66599, 1, 40>>,
    <<66736, 66771, 1, 40>>, <<66928, 66938, 1, 39>>,
    <<66940, 66954, 1, 39>>, <<66956, 66962, 1, 39>>,
    <<66964, 66965, 1, 39>>, <<68736, 68786, 1, 64>>,
    <<71840, 71871, 1, 32>>, <<93760, 93791, 1, 32>>,
    <<125184, 125217, 1, 34>>
  }

\* the ranges of the case-ignorable characters, which str.lower() skips
\* when it looks for the letters around a capital sigma
CaseIgnorableRanges ==
  {
    <<39, 39>>, <<46, 46>>, <<58, 58>>, <<94, 94>>, <<96, 96>>, <<168, 168>>,
    <<173, 173>>, <<175, 175>>, <<180, 180>>, <<183, 184>>, <<688, 879>>,
    <<884, 885>>, <<890, 890>>, <<900, 901>>, <<903, 903>>, <<1155, 1161>>,
    <<1369, 1369>>, <<1375, 1375>>, <<1425, 1469>>, <<1471, 1471>>,
    <<1473, 1474>>, <<1476, 1477>>, <<1479, 1479>>, <<1524, 1524>>,
    <<1536, 1541>>, <<1552, 1562>>, <<1564, 1564>>, <<1600, 1600>>,
    <<1611, 1631>>, <<1648, 1648>>, <<1750, 1757>>, <<1759, 1768>>,
    <<1770, 1773>>, <<1807, 1807>>, <<1809, 1809>>, <<1840, 1866>>,
    <<1958, 1968>>, <<2027, 2037>>, <<2042, 2042>>, <<2045, 2045>>,
    <<2070, 2093>>, <<2137, 2139>>, <<2184, 2184>>, <<2192, 2193>>,
    <<2200, 2207>>, <<2249, 2306>>, <<2362, 2362>>, <<2364, 2364>>,
    <<2369, 2376>>, <<2381, 2381>>, <<2385, 2391>>, <<2402, 2403>>,
    <<2417, 2417>>, <<2433, 2433>>, <<2492, 2492>>, <<2497, 2500>>,
    <<2509, 2509>>, <<2530, 2531>>, <<2558, 2558>>, <<2561, 2562>>,
    <<2620, 2620>>, <<2625, 2626>>, <<2631, 2632>>, <<2635, 2637>>,
    <<2641, 2641>>, <<2672, 2673>>, <<2677, 2677>>, <<2689, 2690>>,
    <<2748, 2748>>, <<2753, 2757>>, <<2759, 2760>>, <<2765, 2765>>,
    <<2786, 2787>>, <<2810, 2815>>, <<2817, 2817>>, <<2876, 2876>>,
    <<2879, 2879>>, <<2881, 2884>>, <<2893, 2893>>, <<2901, 2902>>,
    <<2914, 2915>>, <<2946, 2946>>, <<3008, 3008>>, <<3021, 3021>>,
    <<3072, 3072>>, <<3076, 3076>>, <<3132, 3132>>, <<3134, 3136>>,
    <<3142, 3144>>, <<3146, 3149>>, <<3157, 3158>>, <<3170, 3171>>,
    <<3201, 3201>>, <<3260, 3260>>, <<3263, 3263>>, <<3270, 3270>>,
    <<3276, 3277>>, <<3298, 3299>>, <<3328, 3329>>, <<3387, 3388>>,
    <<3393, 3396>>, <<3405, 3405>>, <<3426, 3427>>, <<3457, 3457>>,
    <<3530, 3530>>, <<3538, 3540>>, <<3542, 3542>>, <<3633, 3633>>,
    <<3636, 3642>>, <<3654, 3662>>, <<3761, 3761>>, <<3764, 3772>>,
    <<3782, 3782>>, <<3784, 3789>>, <<3864, 3865>>, <<3893, 3893>>,
    <<3895, 3895>>, <<3897, 3897>>, <<3953, 3966>>, <<3968, 3972>>,
    <<3974, 3975>>, <<3981, 3991>>, <<3993, 4028>>, <<4038, 4038>>,
    <<4141, 4144>>, <<4146, 4151>>, <<4153, 4154>>, <<4157, 4158>>,
    <<4184, 4185>>, <<4190, 4192>>, <<4209, 4212>>, <<4226, 4226>>,
    <<4229, 4230>>, <<4237, 4237>>, <<4253, 4253>>, <<4348, 4348>>,
    <<4957, 4959>>, <<5906, 5908>>, <<5938, 5939>>, <<5970, 5971>>,
    <<6002, 6003>>, <<6068, 6069>>, <<6071, 6077>>, <<6086, 6086>>,
    <<6089, 6099>>, <<6103, 6103>>, <<6109, 6109>>, <<6155, 6159>>,
    <<6211, 6211>>, <<6277, 6278>>, <<6313, 6313>>, <<6432, 6434>>,
    <<6439, 6440>>, <<6450, 6450>>, <<6457, 6459>>, <<6679, 6680>>,
    <<6683, 6683>>, <<6742, 6742>>, <<6744, 6750>>, <<6752, 6752>>,
    <<6754, 6754>>, <<6757, 6764>>, <<6771, 6780>>, <<6783, 6783>>,
    <<6823, 6823>>, <<6832, 6862>>, <<6912, 6915>>, <<6964, 6964>>,
    <<6966, 6970>>, <<6972, 6972>>, <<6978, 6978>>, <<7019, 7027>>,
    <<7040, 7041>>, <<7074, 7077>>, <<7080, 7081>>, <<7083, 7085>>,
    <<7142, 7142>>, <<7144, 7145>>, <<7149, 7149>>, <<7151, 7153>>,
    <<7212, 7219>>, <<7222, 7223>>, <<7288, 7293>>, <<7376, 7378>>,
    <<7380, 7392>>, <<7394, 7400>>, <<7405, 7405>>, <<7412, 7412>>,
    <<7416, 7417>>, <<7468, 7530>>, <<7544, 7544>>, <<7579, 7679>>,
    <<8125, 8125>>, <<8127, 8129>>, <<8141, 8143>>, <<8157, 8159>>,
    <<8173, 8175>>, <<8189, 8190>>, <<8203, 8207>>, <<8216, 8217>>,
    <<8228, 8228>>, <<8231, 8231>>, <<8234, 8238>>, <<8288, 8292>>,
    <<8294, 8303>>, <<8305, 8305>>, <<8319, 8319>>, <<8336, 8348>>,
    <<8400, 8432>>, <<11388, 11389>>, <<11503, 11505>>, <<11631, 11631>>,
    <<11647, 11647>>, <<11744, 11775>>, <<11823, 11823>>, <<12293, 12293>>,
    <<12330, 12333>>, <<12337, 12341>>, <<12347, 12347>>, <<12441, 12446>>,
    <<12540, 12542>>, <<40981, 40981>>, <<42232, 42237>>, <<42508, 42508>>,
    <<42607, 42610>>, <<42612, 42621>>, <<42623, 42623>>, <<42652, 42655>>,
    <<42736, 42737>>, <<42752, 42785>>, <<42864, 42864>>, <<42888, 42890>>,
    <<42994, 42996>>, <<43000, 43001>>, <<43010, 43010>>, <<43014, 43014>>,
    <<43019, 43019>>, <<43045, 43046>>, <<43052, 43052>>, <<43204, 43205>>,
    <<43232, 43249>>, <<43263, 43263>>, <<43302, 43309>>, <<43335, 43345>>,
    <<43392, 43394>>, <<43443, 43443>>, <<43446, 43449>>, <<43452, 43453>>,
    <<43471, 43471>>, <<43493, 43494>>, <<43561, 43566>>, <<43569, 43570>>,
    <<43573, 43574>>, <<43587, 43587>>, <<43596, 43596>>, <<43632, 43632>>,
    <<43644, 43644>>, <<43696, 43696>>, <<43698, 43700>>, <<43703, 43704>>,
    <<43710, 43711>>, <<43713, 43713>>, <<43741, 43741>>, <<43756, 43757>>,
    <<43763, 43764>>, <<43766, 43766>>, <<43867, 43871>>, <<43881, 43883>>,
    <<44005, 44005>>, <<44008, 44008>>, <<44013, 44013>>, <<64286, 64286>>,
    <<64434, 64450>>, <<65024, 65039>>, <<65043, 65043>>, <<65056, 65071>>,
    <<65106, 65106>>, <<65109, 65109>>, <<65279, 65279>>, <<65287, 65287>>,
    <<65294, 65294>>, <<65306, 65306>>, <<65342, 65342>>, <<65344, 65344>>,
    <<65392, 65392>>, <<65438, 65439>>, <<65507, 65507>>, <<65529, 65531>>,
    <<66045, 66045>>, <<66272, 66272>>, <<66422, 66426>>, <<67456, 67461>>,
    <<67463, 67504>>, <<67506, 67514>>, <<68097, 68099>>, <<68101, 68102>>,
    <<68108, 68111>>, <<68152, 68154>>, <<68159, 68159>>, <<68325, 68326>>,
    <<68900, 68903>>, <<69291, 69292>>, <<69446, 69456>>, <<69506, 69509>>,
    <<69633, 69633>>, <<69688, 69702>>, <<69744, 69744>>, <<69747, 69748>>,
    <<69759, 69761>>, <<69811, 69814>>, <<69817, 69818>>, <<69821, 69821>>,
    <<69826, 69826>>, <<69837, 69837>>, <<69888, 69890>>, <<69927, 69931>>,
    <<69933, 69940>>, <<70003, 70003>>, <<70016, 70017>>, <<70070, 70078>>,
    <<70089, 70092>>, <<70095, 70095>>, <<70191, 70193>>, <<70196, 70196>>,
    <<70198, 70199>>, <<70206, 70206>>, <<70367, 70367>>, <<70371, 70378>>,
    <<70400, 70401>>, <<70459, 70460>>, <<70464, 70464>>, <<70502, 70508>>,
    <<70512, 70516>>, <<70712, 70719>>, <<70722, 70724>>, <<70726, 70726>>,
    <<70750, 70750>>, <<70835, 70840>>, <<70842, 70842>>, <<70847, 70848>>,
    <<70850, 70851>>, <<71090, 71093>>, <<71100, 71101>>, <<71103, 71104>>,
    <<71132, 71133>>, <<71219, 71226>>, <<71229, 71229>>, <<71231, 71232>>,
    <<71339, 71339>>, <<71341, 71341>>, <<71344, 71349>>, <<71351, 71351>>,
    <<71453, 71455>>, <<71458, 71461>>, <<71463, 71467>>, <<71727, 71735>>,
    <<71737, 71738>>, <<71995, 71996>>, <<71998, 71998>>, <<72003, 72003>>,
    <<72148, 72151>>, <<72154, 72155>>, <<72160, 72160>>, <<72193, 72202>>,
    <<72243, 72248>>, <<72251, 72254>>, <<72263, 72263>>, <<72273, 72278>>,
    <<72281, 72283>>, <<72330, 72342>>, <<72344, 72345>>, <<72752, 72758>>,
    <<72760, 72765>>, <<72767, 72767>>, <<72850, 72871>>, <<72874, 72880>>,
    <<72882, 72883>>, <<72885, 72886>>, <<73009, 73014>>, <<73018, 73018>>,
    <<73020, 73021>>, <<73023, 73029>>, <<73031, 73031>>, <<73104, 73105>>,
    <<73109, 73109>>, <<73111, 73111>>, <<73459, 73460>>, <<78896, 78904>>,
    <<92912, 92916>>, <<92976, 92982>>, <<92992, 92995>>, <<94031, 94031>>,
    <<94095, 94111>>, <<94176, 94177>>, <<94179, 94180>>, <<110576, 110579>>,
    <<110581, 110587>>, <<110589, 110590>>, <<113821, 113822>>,
    <<113824, 113827>>, <<118528, 118573>>, <<118576, 118598>>,
    <<119143, 119145>>, <<119155, 119170>>, <<119173, 119179>>,
    <<119210, 119213>>, <<119362, 119364>>, <<121344, 121398>>,
    <<121403, 121452>>, <<121461, 121461>>, <<121476, 121476>>,
    <<121499, 121503>>, <<121505, 121519>>, <<122880, 122886>>,
    <<122888, 122904>>, <<122907, 122913>>, <<122915, 122916>>,
    <<122918, 122922>>, <<123184, 123197>>, <<123566, 123566>>,
    <<123628, 123631>>, <<125136, 125142>>, <<125252, 125259>>,
    <<127995, 127999>>, <<917505, 917505>>, <<917536, 917631>>,
    <<917760, 917999>>
  }

\* the ranges of the cased characters (lowercase, uppercase, titlecase)
CasedRanges ==
  {
    <<65, 90>>, <<97, 122>>, <<170, 170>>, <<181, 181>>, <<186, 186>>,
    <<192, 214>>, <<216, 246>>, <<248, 442>>, <<444, 447>>, <<452, 659>>,
    <<661, 696>>, <<704, 705>>, <<736, 740>>, <<837, 837>>, <<880, 883>>,
    <<886, 887>>, <<890, 893>>, <<895, 895>>, <<902, 902>>, <<904, 906>>,
    <<908, 908>>, <<910, 929>>, <<931, 1013>>, <<1015, 1153>>,
    <<1162, 1327>>, <<1329, 1366>>, <<1376, 1416>>, <<4256, 4293>>,
    <<4295, 4295>>, <<4301, 4301>>, <<4304, 4346>>, <<4349, 4351>>,
    <<5024, 5109>>, <<5112, 5117>>, <<7296, 7304>>, <<7312, 7354>>,
    <<7357, 7359>>, <<7424, 7615>>, <<7680, 7957>>, <<7960, 7965>>,
    <<7968, 8005>>, <<8008, 8013>>, <<8016, 8023>>, <<8025, 8025>>,
    <<8027, 8027>>, <<8029, 8029>>, <<8031, 8061>>, <<8064, 8116>>,
    <<8118, 8124>>, <<8126, 8126>>, <<8130, 8132>>, <<8134, 8140>>,
    <<8144, 8147>>, <<8150, 8155>>, <<8160, 8172>>, <<8178, 8180>>,
    <<8182, 8188>>, <<8305, 8305>>, <<8319, 8319>>, <<8336, 8348>>,
    <<8450, 8450>>, <<8455, 8455>>, <<8458, 8467>>, <<8469, 8469>>,
    <<8473, 8477>>, <<8484, 8484>>, <<8486, 8486>>, <<8488, 8488>>,
    <<8490, 8493>>, <<8495, 8500>>, <<8505, 8505>>, <<8508, 8511>>,
    <<8517, 8521>>, <<8526, 8526>>, <<8544, 8575>>, <<8579, 8580>>,
    <<9398, 9449>>, <<11264, 11492>>, <<11499, 11502>>, <<11506, 11507>>,
    <<11520, 11557>>, <<11559, 11559>>, <<11565, 11565>>, <<42560, 42605>>,
    <<42624, 42653>>, <<42786, 42887>>, <<42891, 42894>>, <<42896, 42954>>,
    <<42960, 42961>>, <<42963, 42963>>, <<42965, 42969>>, <<42997, 42998>>,
    <<43000, 43002>>, <<43824, 43866>>, <<43868, 43880>>, <<43888, 43967>>,
    <<64256, 64262>>, <<64275, 64279>>, <<65313, 65338>>, <<65345, 65370>>,
    <<66560, 66639>>, <<66736, 66771>>, <<66776, 66811>>, <<66928, 66938>>,
    <<66940, 66954>>, <<66956, 66962>>, <<66964, 66965>>, <<66967, 66977>>,
    <<66979, 66993>>, <<66995, 67001>>, <<67003, 67004>>, <<67456, 67456>>,
    <<67459, 67461>>, <<67463, 67504>>, <<67506, 67514>>, <<68736, 68786>>,
    <<68800, 68850>>, <<71840, 71903>>, <<93760, 93823>>, <<119808, 119892>>,
    <<119894, 119964>>, <<119966, 119967>>, <<119970, 119970>>,
    <<119973, 119974>>, <<119977, 119980>>, <<119982, 119993>>,
    <<119995, 119995>>, <<119997, 120003>>, <<120005, 120069>>,
    <<120071, 120074>>, <<120077, 120084>>, <<120086, 120092>>,
    <<120094, 120121>>, <<120123, 120126>>, <<120128, 120132>>,
    <<120134, 120134>>, <<120138, 120144>>, <<120146, 120485>>,
    <<120488, 120512>>, <<120514, 120538>>, <<120540, 120570>>,
    <<120572, 120596>>, <<120598, 120628>>, <<120630, 120654>>,
    <<120656, 120686>>, <<120688, 120712>>, <<120714, 120744>>,
    <<120746, 120770>>, <<120772, 120779>>, <<122624, 122633>>,
    <<122635, 122654>>, <<125184, 125251>>, <<127280, 127305>>,
    <<127312, 127337>>, <<127344, 127369>>
  }

\* code points below this are ASCII
AsciiLimit == 128

\* the ASCII rows of the tables, which most look-ups need
AsciiDigitZeros == {z \in DigitZeros : z < AsciiLimit}

AsciiWordRanges == {r \in WordRanges : r[1] < AsciiLimit}

AsciiLowerRuns == {r \in LowerRuns : r[1] < AsciiLimit}

AsciiCaseIgnorableRanges == {r \in CaseIgnorableRanges : r[1] < AsciiLimit}

AsciiCasedRanges == {r \in CasedRanges : r[1] < AsciiLimit}

\* c lies in one of the ranges rs
InRanges(c, rs) == \E r \in rs : r[1] <= c /\ c <= r[2]

\* \d
IsDigit(c) ==
  \E z \in (IF c < AsciiLimit THEN AsciiDigitZeros ELSE DigitZeros) :
    z <= c /\ c <= z + 9

\* \s
IsSpace(c) == c \in SpaceChars

\* \w
IsWordChar(c) ==
  InRanges(c, IF c < AsciiLimit THEN AsciiWordRanges ELSE WordRanges)

IsCaseIgnorable(c) ==
  InRanges(c, IF c < AsciiLimit THEN AsciiCaseIgnorableRanges
                ELSE CaseIgnorableRanges)

IsCased(c) ==
  InRanges(c, IF c < AsciiLimit THEN AsciiCasedRanges ELSE CasedRanges)

\* str.lower() of the one-character string c: one character, but for the
\* capital I with dot above, which becomes i and a combining dot above
LowerChar(c) ==
  IF c = 304 THEN <<105, 775>>
  ELSE LET runs ==
             {r \in (IF c < AsciiLimit THEN AsciiLowerRuns ELSE LowerRuns) :
                r[1] <= c /\ c <= r[2] /\ (c - r[1]) % r[3] = 0}
       IN  IF runs = {} THEN <<c>>
           ELSE <<c + (CHOOSE r \in runs : TRUE)[4]>>

\* the capital sigma s[i] ends a word: the nearest character before it that
\* is not case-ignorable is cased, and the nearest after it is not cased
FinalSigma(s, i) ==
  LET before == {j \in 1..(i - 1) : ~IsCaseIgnorable(s[j])}
      after == {j \in (i + 1)..Len(s) : ~IsCaseIgnorable(s[j])}
  IN  /\ before # {}
      /\ IsCased(s[CHOOSE j \in before : \A k \in before : k <= j])
      /\ \/ after = {}
         \/ ~IsCased(s[CHOOSE j \in after : \A k \in after : j <= k])

\* the characters str.lower() puts in the place of s[i]
LowerAt(s, i) ==
  IF s[i] = 931
    THEN IF FinalSigma(s, i) THEN <<962>> ELSE <<963>>
    ELSE LowerChar(s[i])

\* the lowered characters of s[lo..hi], in order
RECURSIVE LowerRange(_, _, _)
LowerRange(s, lo, hi) ==
  IF lo > hi THEN <<>>
  ELSE IF lo = hi THEN LowerAt(s, lo)
  ELSE LowerRange(s, lo, (lo + hi) \div 2)
         \o LowerRange(s, (lo + hi) \div 2 + 1, hi)

\* str.lower()
Lower(s) == LowerRange(s, 1, Len(s))

\* the value of one decimal digit
DigitVal(c) ==
  c - (CHOOSE z \in (IF c < AsciiLimit THEN AsciiDigitZeros ELSE DigitZeros) :
         z <= c /\ c <= z + 9)

\* int(ds) for a non-empty string of decimal digits
RECURSIVE StrToInt(_)
StrToInt(ds) ==
  IF ds = <<>> THEN 0
  ELSE StrToInt(SubSeq(ds, 1, Len(ds) - 1)) * 10 + DigitVal(ds[Len(ds)])

(***************************************************************************)
(* Pieces of regular-expression matching.  Positions are 1-based; a match  *)
(* "at i" starts with the character s[i].                                  *)
(***************************************************************************)
\* the literal lit occurs in s starting at position i
LiteralAt(s, i, lit) ==
  /\ i >= 1
  /\ i + Len(lit) - 1 <= Len(s)
  /\ SubSeq(s, i, i + Len(lit) - 1) = lit

\* x* for a character class x, greedy: the first position >= i whose
\* character is not in the class (Len(s) + 1 when the run reaches the end)
RECURSIVE SkipSpaces(_, _)
SkipSpaces(s, i) ==
  IF i <= Len(s) /\ IsSpace(s[i]) THEN SkipSpaces(s, i + 1) ELSE i

RECURSIVE SkipDigits(_, _)
SkipDigits(s, i) ==
  IF i <= Len(s) /\ IsDigit(s[i]) THEN SkipDigits(s, i + 1) ELSE i

\* \b between s[p - 1] and s[p]: exactly one side is a word character
WordBoundary(s, p) ==
  LET before == p >= 2 /\ p - 1 <= Len(s) /\ IsWordChar(s[p - 1])
      after == p >= 1 /\ p <= Len(s) /\ IsWordChar(s[p])
  IN  before # after

\* the text a vocabulary pattern matches: "\+" stands for "+", every other
\* character of the vocabulary for itself
RECURSIVE PatternLiteral(_)
PatternLiteral(p) ==
  IF p = <<>> THEN <<>>
  ELSE IF p[1] = (* "\" *) 92 /\ Len(p) >= 2
    THEN <<p[2]>> \o PatternLiteral(SubSeq(p, 3, Len(p)))
    ELSE <<p[1]>> \o PatternLiteral(SubSeq(p, 2, Len(p)))

\* re.search(rf"\b{pattern}\b", s) finds a match
WholeWordSearch(pattern, s) ==
  LET lit == PatternLiteral(pattern)
  IN  \E i \in 1..Len(s) :
        /\ LiteralAt(s, i, lit)
        /\ WordBoundary(s, i)
        /\ WordBoundary(s, i + Len(lit))

\* sub in s (Python's substring test)
Contains(s, sub) ==
  \E i \in 1..(Len(s) + 1) : LiteralAt(s, i, sub)

\* re.search(r"(\d+)", s): the start of the first run of digits, 0 if none
FirstDigitPos(s) ==
  IF \E i \in 1..Len(s) : IsDigit(s[i])
    THEN CHOOSE i \in 1..Len(s) :
           IsDigit(s[i]) /\ \A j \in 1..(i - 1) : ~IsDigit(s[j])
    ELSE 0

\* int(re.search(r"(\d+)", s).group(1)), for s with a digit
FirstInt(s) ==
  LET i == FirstDigitPos(s)
  IN  StrToInt(SubSeq(s, i, SkipDigits(s, i) - 1))

(***************************************************************************)
(* Python dicts.                                                           *)
(***************************************************************************)
EmptyDict == <<>>

\* d[k] = v
Put(d, k, v) == [x \in (DOMAIN d) \cup {k} |-> IF x = k THEN v ELSE d[x]]

\* d.get(k, default)
Get(d, k, default) == IF k \in DOMAIN d THEN d[k] ELSE default

\* the entries of d followed by those of e (disjoint key sets)
Merge(d, e) ==
  [x \in (DOMAIN d) \cup (DOMAIN e) |-> IF x \in DOMAIN e THEN e[x] ELSE d[x]]

(***************************************************************************)
(* QueryProcessor.extract_constraints                                      *)
(***************************************************************************)
\* the alternatives of max_time_pattern, in the order the pattern lists them
max_time_keywords ==
  << (* "less than" *) <<108, 101, 115, 115, 32, 116, 104, 97, 110>>,
      (* "max" *) <<109, 97, 120>>,
      (* "maximum" *) <<109, 97, 120, 105, 109, 117, 109>>,
      (* "under" *) <<117, 110, 100, 101, 114>>,
      (* "within" *) <<119, 105, 116, 104, 105, 110>>,
      (* "up to" *) <<117, 112, 32, 116, 111>> >>

\* max_time_pattern matches at position i of s through alternative kw:
\* kw \s* \d+ \s* min
MaxTimeMatchAt(s, i, kw) ==
  /\ LiteralAt(s, i, kw)
  /\ LET j == SkipSpaces(s, i + Len(kw))
         k == SkipDigits(s, j)
     IN  k > j /\ LiteralAt(s, SkipSpaces(s, k),
         (* "min" *) <<109, 105, 110>>)

\* re.search(max_time_pattern, s) finds a match
max_time_match(s) ==
  \E i \in 1..Len(s) : \E n \in DOMAIN max_time_keywords :
    MaxTimeMatchAt(s, i, max_time_keywords[n])

\* int(max_time_match.group(2)): the leftmost match, and at that position the
\* first alternative that matches
MaxTimeValue(s) ==
  LET hit(i) == \E n \in DOMAIN max_time_keywords :
                  MaxTimeMatchAt(s, i, max_time_keywords[n])
      i == CHOOSE p \in 1..Len(s) : hit(p) /\ \A q \in 1..(p - 1) : ~hit(q)
      n == CHOOSE m \in DOMAIN max_time_keywords :
             /\ MaxTimeMatchAt(s, i, max_time_keywords[m])
             /\ \A l \in 1..(m - 1) : ~MaxTimeMatchAt(s, i,
                 max_time_keywords[l])
      j == SkipSpaces(s, i + Len(max_time_keywords[n]))
  IN  StrToInt(SubSeq(s, j, SkipDigits(s, j) - 1))

\* time_pattern matches at position i of s: \d+ \s* minutes
TimeMatchAt(s, i) ==
  /\ i <= Len(s)
  /\ IsDigit(s[i])
  /\ LiteralAt(s, SkipSpaces(s, SkipDigits(s, i)),
      (* "minutes" *) <<109, 105, 110, 117, 116, 101, 115>>)

\* re.search(time_pattern, s) finds a match
time_match(s) == \E i \in 1..Len(s) : TimeMatchAt(s, i)

\* int(time_match.group(1)): the leftmost match
TimeValue(s) ==
  LET i == CHOOSE p \in 1..Len(s) :
             TimeMatchAt(s, p) /\ \A q \in 1..(p - 1) : ~TimeMatchAt(s, q)
  IN  StrToInt(SubSeq(s, i, SkipDigits(s, i) - 1))

\* the skill vocabulary, as the source writes it: "c\+\+" keeps its
\* backslashes (they are not an escape of a Python string literal)
tech_skills ==
  << (* "java" *) <<106, 97, 118, 97>>,
      (* "python" *) <<112, 121, 116, 104, 111, 110>>,
      (* "javascript" *) <<106, 97, 118, 97, 115, 99, 114, 105, 112, 116>>,
      (* "js" *) <<106, 115>>, (* "sql" *) <<115, 113, 108>>,
      (* "react" *) <<114, 101, 97, 99, 116>>,
     (* "angular" *) <<97, 110, 103, 117, 108, 97, 114>>,
         (* "node" *) <<110, 111, 100, 101>>,
         (* "c\+\+" *) <<99, 92, 43, 92, 43>>, (* "c#" *) <<99, 35>> >>

\* the test-type vocabulary
test_types ==
  << (* "cognitive" *) <<99, 111, 103, 110, 105, 116, 105, 118, 101>>,
      (* "personality" *) <<112, 101, 114, 115, 111, 110, 97, 108, 105, 116,
      121>>, (* "behavior" *) <<98, 101, 104, 97, 118, 105, 111, 114>>,
      (* "situational" *) <<115, 105, 116, 117, 97, 116, 105, 111, 110, 97,
      108>>,
     (* "technical" *) <<116, 101, 99, 104, 110, 105, 99, 97, 108>>,
         (* "coding" *) <<99, 111, 100, 105, 110, 103>> >>

\* the list of the vocabulary entries found in s as whole words, in
\* vocabulary order
FoundIn(vocabulary, s) ==
  SelectSeq(vocabulary, LAMBDA w : WholeWordSearch(w, s))

\* TimeConstraints with the exact-duration guard "and not max_time_match"
\* left out
TimeConstraintsUnguarded(query) ==
  LET c0 == EmptyDict
      c1 == IF max_time_match(Lower(query))
              THEN Put(c0, "max_duration", MaxTimeValue(Lower(query)))
              ELSE c0
  IN  IF time_match(query) THEN Put(c1, "duration", TimeValue(query)) ELSE c1

\* the duration part of extract_constraints
TimeConstraints(query) ==
  LET c0 == EmptyDict
      c1 == IF max_time_match(Lower(query))
              THEN Put(c0, "max_duration", MaxTimeValue(Lower(query)))
              ELSE c0
  IN  IF time_match(query) /\ ~max_time_match(Lower(query))
        THEN Put(c1, "duration", TimeValue(query))
        ELSE c1

extract_constraints(query) ==
  LET c2 == TimeConstraints(query)
      found_skills == FoundIn(tech_skills, Lower(query))
      c3 == IF found_skills # <<>> THEN Put(c2, "skills",
          found_skills) ELSE c2
      found_types == FoundIn(test_types, Lower(query))
  IN  IF found_types # <<>> THEN Put(c3, "test_types", found_types) ELSE c3

(***************************************************************************)
(* QueryProcessor.filter_assessments                                       *)
(***************************************************************************)
\* "duration" in a and re.search(r"(\d+)", a["duration"])
HasParsedDuration(a) ==
  "duration" \in DOMAIN a /\ FirstDigitPos(a["duration"]) # 0

\* DurationStage falling back to its input when the max_duration branch
\* keeps nothing
DurationStageWithFallback(assessments, constraints) ==
  IF "max_duration" \in DOMAIN constraints
    THEN LET kept ==
               SelectSeq(assessments, LAMBDA a :
                 HasParsedDuration(a)
                   /\ FirstInt(a["duration"]) <= constraints["max_duration"])
         IN  IF kept # <<>> THEN kept ELSE assessments
  ELSE IF "duration" \in DOMAIN constraints
    THEN SelectSeq(assessments, LAMBDA a :
           HasParsedDuration(a)
             /\ FirstInt(a["duration"]) = constraints["duration"])
  ELSE assessments

\* DurationStage dropping records without a parsed duration even when no
\* duration constraint is set
DurationStageNeedsDuration(assessments, constraints) ==
  IF "max_duration" \in DOMAIN constraints
    THEN SelectSeq(assessments, LAMBDA a :
           HasParsedDuration(a)
             /\ FirstInt(a["duration"]) <= constraints["max_duration"])
  ELSE IF "duration" \in DOMAIN constraints
    THEN SelectSeq(assessments, LAMBDA a :
           HasParsedDuration(a)
             /\ FirstInt(a["duration"]) = constraints["duration"])
  ELSE SelectSeq(assessments, HasParsedDuration)

\* DurationStage treating an exact duration as an upper bound
DurationStageExactAsBound(assessments, constraints) ==
  IF "max_duration" \in DOMAIN constraints
    THEN SelectSeq(assessments, LAMBDA a :
           HasParsedDuration(a)
             /\ FirstInt(a["duration"]) <= constraints["max_duration"])
  ELSE IF "duration" \in DOMAIN constraints
    THEN SelectSeq(assessments, LAMBDA a :
           HasParsedDuration(a)
             /\ FirstInt(a["duration"]) <= constraints["duration"])
  ELSE assessments

\* DurationStage keeping, under max_duration, every record with a parsed
\* duration whatever its value
DurationStageAnyParsed(assessments, constraints) ==
  IF "max_duration" \in DOMAIN constraints
    THEN SelectSeq(assessments, HasParsedDuration)
  ELSE IF "duration" \in DOMAIN constraints
    THEN SelectSeq(assessments, LAMBDA a :
           HasParsedDuration(a)
             /\ FirstInt(a["duration"]) = constraints["duration"])
  ELSE assessments

\* the duration stage: the max_duration branch, else the duration branch
DurationStage(assessments, constraints) ==
  IF "max_duration" \in DOMAIN constraints
    THEN SelectSeq(assessments, LAMBDA a :
           HasParsedDuration(a)
             /\ FirstInt(a["duration"]) <= constraints["max_duration"])
  ELSE IF "duration" \in DOMAIN constraints
    THEN SelectSeq(assessments, LAMBDA a :
           HasParsedDuration(a)
             /\ FirstInt(a["duration"]) = constraints["duration"])
  ELSE assessments

\* some skill is a whole word of the assessment's lower-cased name or
\* description
SkillMatch(assessment, skills) ==
  \E n \in DOMAIN skills :
    \/ WholeWordSearch(skills[n], Lower(Get(assessment, "name", <<>>)))
    \/ WholeWordSearch(skills[n], Lower(Get(assessment, "description", <<>>)))

\* SkillsStage replacing filtered by skill_matches even when it is empty
SkillsStageNoFallback(filtered, constraints) ==
  IF "skills" \in DOMAIN constraints /\ constraints["skills"] # <<>>
    THEN SelectSeq(filtered, LAMBDA a : SkillMatch(a, constraints["skills"]))
    ELSE filtered

\* SkillsStage without the break: an assessment is appended once for every
\* skill it matches
RECURSIVE MatchesNoBreak(_, _)
MatchesNoBreak(filtered, skills) ==
  IF filtered = <<>> THEN <<>>
  ELSE LET hits == SelectSeq(skills, LAMBDA k : SkillMatch(Head(filtered),
      <<k>>))
       IN  [n \in 1..Len(hits) |-> Head(filtered)]
             \o MatchesNoBreak(Tail(filtered), skills)

SkillsStageNoBreak(filtered, constraints) ==
  IF "skills" \in DOMAIN constraints /\ constraints["skills"] # <<>>
    THEN LET skill_matches == MatchesNoBreak(filtered, constraints["skills"])
         IN  IF skill_matches # <<>> THEN skill_matches ELSE filtered
    ELSE filtered

\* the skills stage: skill_matches replaces filtered only when non-empty
SkillsStage(filtered, constraints) ==
  IF "skills" \in DOMAIN constraints /\ constraints["skills"] # <<>>
    THEN LET skill_matches ==
               SelectSeq(filtered, LAMBDA a :
                 SkillMatch(a, constraints["skills"]))
         IN  IF skill_matches # <<>> THEN skill_matches ELSE filtered
    ELSE filtered

\* TypeMatch comparing the test_type field without lower-casing it
TypeMatchCaseSensitive(assessment, types) ==
  \E n \in DOMAIN types :
    \/ Contains(Get(assessment, "test_type", <<>>), types[n])
    \/ WholeWordSearch(types[n], Lower(Get(assessment, "description", <<>>)))

\* some test type is a substring of the assessment's lower-cased test_type
\* or a whole word of its lower-cased description
TypeMatch(assessment, types) ==
  \E n \in DOMAIN types :
    \/ Contains(Lower(Get(assessment, "test_type", <<>>)), types[n])
    \/ WholeWordSearch(types[n], Lower(Get(assessment, "description", <<>>)))

\* TypesStage replacing filtered by type_matches even when it is empty
TypesStageNoFallback(filtered, constraints) ==
  IF "test_types" \in DOMAIN constraints /\ constraints["test_types"] # <<>>
    THEN SelectSeq(filtered, LAMBDA a :
           TypeMatch(a, constraints["test_types"]))
    ELSE filtered

\* the test-type stage: type_matches replaces filtered only when non-empty
TypesStage(filtered, constraints) ==
  IF "test_types" \in DOMAIN constraints /\ constraints["test_types"] # <<>>
    THEN LET type_matches ==
               SelectSeq(filtered, LAMBDA a :
                 TypeMatch(a, constraints["test_types"]))
         IN  IF type_matches # <<>> THEN type_matches ELSE filtered
    ELSE filtered

filter_assessments(assessments, constraints) ==
  TypesStage(SkillsStage(DurationStage(assessments, constraints),
      constraints),
             constraints)

(***************************************************************************)
(* QueryProcessor.process_query                                            *)
(***************************************************************************)
\* the n_results that process_query passes to embedding_engine.search
n_results == 20

\* s[:n + 1]
TakeOneMore(s, n) == SubSeq(s, 1, IF n + 1 < Len(s) THEN n + 1 ELSE Len(s))

\* s[:n] for n >= 0
Take(s, n) == SubSeq(s, 1, IF n < Len(s) THEN n ELSE Len(s))

\* the return statement without its else branch
TopResultsNoFallback(filtered_results, search_results, max_results) ==
  SubSeq(filtered_results, 1,
         IF max_results < Len(filtered_results)
           THEN max_results ELSE Len(filtered_results))

\* the value process_query returns
TopResults(filtered_results, search_results, max_results) ==
  IF filtered_results # <<>>
    THEN Take(filtered_results, max_results)
    ELSE Take(search_results, max_results)

(***************************************************************************)
(* Inputs.                                                                 *)
(***************************************************************************)
\* assessment records as the catalog supplies them: every field is optional
\* to the pipeline, and "Unknown" is the scraper's default duration
JavaTest ==
  [name |-> (* "Java Test" *) <<74, 97, 118, 97, 32, 84, 101, 115, 116>>,
      description |-> (* "java coding" *) <<106, 97, 118, 97, 32, 99, 111,
      100, 105, 110, 103>>,
   duration |-> (* "20 minutes" *) <<50, 48, 32, 109, 105, 110, 117, 116,
       101, 115>>, test_type |-> (* "Knowledge" *) <<75, 110, 111, 119, 108,
       101, 100, 103, 101>>]

JavaScriptSim ==
  [name |-> (* "JavaScript" *) <<74, 97, 118, 97, 83, 99, 114, 105, 112,
      116>>, description |-> (* "js quiz" *) <<106, 115, 32, 113, 117, 105,
      122>>,
   duration |-> (* "45 minutes" *) <<52, 53, 32, 109, 105, 110, 117, 116,
       101, 115>>, test_type |-> (* "Coding" *) <<67, 111, 100, 105, 110,
       103>>]

Verbal ==
  [name |-> (* "Verbal" *) <<86, 101, 114, 98, 97, 108>>,
      description |-> (* "reasoning" *) <<114, 101, 97, 115, 111, 110, 105,
      110, 103>>,
   duration |-> (* "Unknown" *) <<85, 110, 107, 110, 111, 119, 110>>]

PythonBare == [name |-> (* "Python" *) <<80, 121, 116, 104, 111, 110>>]

Numerical ==
  [name |-> (* "Numerical" *) <<78, 117, 109, 101, 114, 105, 99, 97, 108>>,
      description |-> (* "numbers" *) <<110, 117, 109, 98, 101, 114, 115>>,
   duration |-> (* "max 25 min" *) <<109, 97, 120, 32, 50, 53, 32, 109, 105,
       110>>, test_type |-> (* "Cognitive" *) <<67, 111, 103, 110, 105, 116,
       105, 118, 101>>]

Catalog == {JavaTest, JavaScriptSim, Verbal, PythonBare, Numerical}

\* the lists of at most n elements of S
SeqsUpTo(S, n) == UNION {[1..k -> S] : k \in 0..n}

AssessmentLists == SeqsUpTo(Catalog, MaxLen)

\* constraint sets handed to filter_assessments: every combination of the
\* four keys, with lists from the vocabularies (an empty list included)
DurationParts ==
  {EmptyDict}
    \cup {[max_duration |-> d] : d \in {10, 25}}
    \cup {[duration |-> d] : d \in {10, 25}}
    \cup {[max_duration |-> 25, duration |-> 10]}

SkillParts ==
  {EmptyDict}
    \cup {[skills |-> l] :
            l \in {<<>>, << (* "java" *) <<106, 97, 118, 97>> >>,
                << (* "sql" *) <<115, 113, 108>> >>,
                   << (* "javascript" *) <<106, 97, 118, 97, 115, 99, 114,
                       105, 112, 116>>, (* "js" *) <<106, 115>>,
                       (* "python" *) <<112, 121, 116, 104, 111, 110>> >>}}

TypeParts ==
  {EmptyDict}
    \cup {[test_types |-> l] :
            l \in {<<>>, << (* "coding" *) <<99, 111, 100, 105, 110,
                103>> >>, << (* "personality" *) <<112, 101, 114, 115, 111,
                110, 97, 108, 105, 116, 121>> >>}}

ConstraintSets ==
  {Merge(Merge(d, s), t) : d \in DurationParts, s \in SkillParts,
      t \in TypeParts}

\* query strings: concatenations of at most MaxFrags fragments; the last
\* three are a vertical tab (whitespace), a capital E with acute (a letter)
\* and an Arabic-Indic digit three before " min"
Fragments ==
  << (* "under " *) <<117, 110, 100, 101, 114, 32>>,
      (* "20 Minutes " *) <<50, 48, 32, 77, 105, 110, 117, 116, 101, 115,
      32>>,
      (* "30 minutes " *) <<51, 48, 32, 109, 105, 110, 117, 116, 101, 115,
      32>>, (* "5 min" *) <<53, 32, 109, 105, 110>>,
      (* "Max" *) <<77, 97, 120>>,
     (* "java" *) <<106, 97, 118, 97>>,
         (* "script " *) <<115, 99, 114, 105, 112, 116, 32>>,
         (* "c++" *) <<99, 43, 43>>, (* " " *) <<32>>,
         (* "Coding " *) <<67, 111, 100, 105, 110, 103, 32>>,
         (* "c#" *) <<99, 35>>,
     (* "\x0b" *) <<11>>, (* "\xc9" *) <<201>>,
         (* "\u0663 min" *) <<1635, 32, 109, 105, 110>> >>

RECURSIVE Concat(_)
Concat(fs) ==
  IF fs = <<>> THEN <<>> ELSE Fragments[Head(fs)] \o Concat(Tail(fs))

Queries == {Concat(fs) : fs \in SeqsUpTo(DOMAIN Fragments, MaxFrags)}

\* the queries handed to process_query
SampleQueries ==
  { (* "Java developer assessment under 30 minutes" *) <<74, 97, 118, 97, 32,
      100, 101, 118, 101, 108, 111, 112, 101, 114, 32, 97, 115, 115, 101,
      115, 115, 109, 101, 110, 116, 32, 117, 110, 100, 101, 114, 32, 51, 48,
      32, 109, 105, 110, 117, 116, 101, 115>>,
    (* "generic skills test" *) <<103, 101, 110, 101, 114, 105, 99, 32, 115,
        107, 105, 108, 108, 115, 32, 116, 101, 115, 116>>,
    (* "under 20 minutes and 30 minutes" *) <<117, 110, 100, 101, 114, 32,
        50, 48, 32, 109, 105, 110, 117, 116, 101, 115, 32, 97, 110, 100, 32,
        51, 48, 32, 109, 105, 110, 117, 116, 101, 115>>,
    (* "python 45 minutes" *) <<112, 121, 116, 104, 111, 110, 32, 52, 53, 32,
        109, 105, 110, 117, 116, 101, 115>>,
    (* "sql coding" *) <<115, 113, 108, 32, 99, 111, 100, 105, 110, 103>>,
    (* "max 10 min" *) <<109, 97, 120, 32, 49, 48, 32, 109, 105, 110>> }

\* what embedding_engine.search(query, n) may return: at most n records
SearchOutcomes(n) == {l \in AssessmentLists : Len(l) <= n}

(***************************************************************************)
(* EmbeddingEngine (src/embedding.py).  The collection is the list of the  *)
(* stored records (the metadatas) in insertion order.                      *)
(***************************************************************************)
\* process_assessments without the "already contains documents" check
process_assessments_blind(collection, assessments, count_raises, add_ok) ==
  IF assessments = <<>> THEN [collection |-> collection, raised |-> "none"]
  ELSE IF add_ok THEN [collection |-> assessments, raised |-> "none"]
  ELSE [collection |-> collection, raised |-> "none"]

\* process_assessments(assessments): the collection after the call and the
\* error it raises ("none": it returns).  count_raises is the error
\* collection.count() raises ("none": it answers), which nothing catches;
\* add_ok tells whether collection.add succeeds (it raises otherwise, which
\* is caught)
process_assessments(collection, assessments, count_raises, add_ok) ==
  IF assessments = <<>> THEN [collection |-> collection, raised |-> "none"]
  ELSE IF count_raises # "none"
    THEN [collection |-> collection, raised |-> count_raises]
  ELSE IF Len(collection) > 0
    THEN [collection |-> collection, raised |-> "none"]
  ELSE IF add_ok THEN [collection |-> assessments, raised |-> "none"]
  ELSE [collection |-> collection, raised |-> "none"]

\* errors a collaborator may raise
EngineErrors == {"ConnectionError", "ValueError"}

\* s rotated left by k
Rotate(s, k) == [i \in 1..Len(s) |-> s[((i + k - 1) % Len(s)) + 1]]

\* the metadatas of the n nearest records: which records are nearest is the
\* embedding model's choice, here the n that follow some record
Nearest(collection, n) ==
  IF collection = <<>> THEN {<<>>}
  ELSE {SubSeq(Rotate(collection, k), 1,
               IF n < Len(collection) THEN n ELSE Len(collection)) :
          k \in 0..(Len(collection) - 1)}

\* what self.collection.query(query_texts=[query], n_results=n) may do:
\* raise, or return results that are empty, lack "metadatas", hold an empty
\* "metadatas", or hold the metadatas of the single query
QueryOutcomes(collection, n) ==
  {[kind |-> "raise", error |-> e] : e \in EngineErrors}
    \cup {[kind |-> "results", results |-> r] :
            r \in {EmptyDict, [ids |-> <<>>], [metadatas |-> <<>>]}
                    \cup {[metadatas |-> <<l>>] : l \in Nearest(collection,
                        n)}}

\* EmbeddingEngine.search without its try/except
EngineSearchUncaught(outcome) ==
  IF outcome.kind = "raise"
    THEN [returned |-> <<>>, raised |-> outcome.error]
  ELSE IF /\ outcome.results # EmptyDict
          /\ "metadatas" \in DOMAIN outcome.results
          /\ outcome.results["metadatas"] # <<>>
    THEN [returned |-> outcome.results["metadatas"][1], raised |-> "none"]
  ELSE [returned |-> <<>>, raised |-> "none"]

\* EmbeddingEngine.search, given what collection.query did: the list it
\* returns and the error it raises ("none": it returns)
EngineSearch(outcome) ==
  IF outcome.kind = "raise"
    THEN [returned |-> <<>>, raised |-> "none"]
  ELSE IF /\ outcome.results # EmptyDict
          /\ "metadatas" \in DOMAIN outcome.results
          /\ outcome.results["metadatas"] # <<>>
    THEN [returned |-> outcome.results["metadatas"][1], raised |-> "none"]
  ELSE [returned |-> <<>>, raised |-> "none"]

\* the records and lists the engine is fed
EngineCatalog == {JavaTest, Verbal, PythonBare}

EngineLists == SeqsUpTo(EngineCatalog, MaxLen - 1)

\* the default of search's n_results
DefaultNResults == 10

\* the n_results of a direct search call: a single record, the default, and
\* process_query's
SearchSizes == {1, DefaultNResults, n_results}

\* collections behind process_query: empty, the catalog, and one with more
\* records than process_query asks for
CatalogList == <<JavaTest, JavaScriptSim, Verbal, PythonBare, Numerical>>

BigCollection ==
  [i \in 1..(n_results + 2) |-> CatalogList[((i - 1) % Len(CatalogList)) + 1]]

PipelineCollections == {<<>>, CatalogList, BigCollection}

(***************************************************************************)
(* Transport layers: the /recommend endpoint (src/api.py) and the          *)
(* interactive command line (src/cli.py).                                  *)
(***************************************************************************)
RECURSIVE LStrip(_)
LStrip(s) == IF s # <<>> /\ IsSpace(Head(s)) THEN LStrip(Tail(s)) ELSE s

RECURSIVE RStrip(_)
RStrip(s) ==
  IF s # <<>> /\ IsSpace(s[Len(s)])
    THEN RStrip(SubSeq(s, 1, Len(s) - 1))
    ELSE s

\* str.strip()
Strip(s) == RStrip(LStrip(s))

\* the max_results the endpoint passes to process_query
ApiMaxResults == 10

\* the max_results the command line leaves to process_query's default
DefaultMaxResults == 10

\* the length of the description excerpt the command line prints
ExcerptLen == 100

\* AssessmentResponse with "Unknown" as the default of url too
AssessmentResponseAllUnknown(rec) ==
  [name |-> Get(rec, "name",
      (* "Unknown" *) <<85, 110, 107, 110, 111, 119, 110>>),
   url |-> Get(rec, "url",
       (* "Unknown" *) <<85, 110, 107, 110, 111, 119, 110>>),
   remote_testing |-> Get(rec, "remote_testing",
       (* "Unknown" *) <<85, 110, 107, 110, 111, 119, 110>>),
   adaptive_irt |-> Get(rec, "adaptive_irt",
       (* "Unknown" *) <<85, 110, 107, 110, 111, 119, 110>>),
   duration |-> Get(rec, "duration",
       (* "Unknown" *) <<85, 110, 107, 110, 111, 119, 110>>),
   test_type |-> Get(rec, "test_type",
       (* "Unknown" *) <<85, 110, 107, 110, 111, 119, 110>>)]

\* the AssessmentResponse the endpoint builds from a record
AssessmentResponse(rec) ==
  [name |-> Get(rec, "name",
      (* "Unknown" *) <<85, 110, 107, 110, 111, 119, 110>>),
   url |-> Get(rec, "url", (* "#" *) <<35>>),
   remote_testing |-> Get(rec, "remote_testing",
       (* "Unknown" *) <<85, 110, 107, 110, 111, 119, 110>>),
   adaptive_irt |-> Get(rec, "adaptive_irt",
       (* "Unknown" *) <<85, 110, 107, 110, 111, 119, 110>>),
   duration |-> Get(rec, "duration",
       (* "Unknown" *) <<85, 110, 107, 110, 111, 119, 110>>),
   test_type |-> Get(rec, "test_type",
       (* "Unknown" *) <<85, 110, 107, 110, 111, 119, 110>>)]

\* the values the command line interpolates into the lines it prints for
\* one record (the record has a name)
CliEntry(rec) ==
  [name |-> rec["name"],
   url |-> Get(rec, "url", (* "#" *) <<35>>),
   remote_testing |-> Get(rec, "remote_testing",
       (* "Unknown" *) <<85, 110, 107, 110, 111, 119, 110>>),
   adaptive_irt |-> Get(rec, "adaptive_irt",
       (* "Unknown" *) <<85, 110, 107, 110, 111, 119, 110>>),
   duration |-> Get(rec, "duration",
       (* "Unknown" *) <<85, 110, 107, 110, 111, 119, 110>>),
   test_type |-> Get(rec, "test_type",
       (* "Unknown" *) <<85, 110, 107, 110, 111, 119, 110>>),
   description |->
     Take(Get(rec, "description",
         (* "No description available" *) <<78, 111, 32, 100, 101, 115, 99,
         114, 105, 112, 116, 105, 111, 110, 32, 97, 118, 97, 105, 108, 97,
         98, 108, 101>>), ExcerptLen)
       \o (* "..." *) <<46, 46, 46>>]

\* how many records the command line prints before result['name'] raises
\* KeyError: all of them when every record has a name
RECURSIVE PrintedCount(_)
PrintedCount(results) ==
  IF results = <<>> \/ "name" \notin DOMAIN Head(results)
    THEN 0
    ELSE 1 + PrintedCount(Tail(results))

\* an Optional[str]: None is the empty sequence, a str s is <<s>>
None == <<>>

Some(s) == <<s>>

\* the length to which the text fetched from a url is cut
PageLimit == 1500

\* errors fetching a url may raise
FetchErrors == {"Timeout", "HTTPError"}

\* the page text extract_text_from_url has after cleaning, its lines joined
\* by newlines: an empty page, a job description of two lines, and a page
\* longer than PageLimit
LongPage == [i \in 1..(PageLimit + 1) |-> (* "a" *) 97]

CleanedTexts == {(* "" *) <<>>,
    (* "sql coding\x0a45 minutes" *) <<115, 113, 108, 32, 99, 111, 100, 105,
    110, 103, 10, 52, 53, 32, 109, 105, 110, 117, 116, 101, 115>>, LongPage}

\* what fetching and cleaning the page may do
UrlOutcomes ==
  {[kind |-> "raise", error |-> e] : e \in FetchErrors}
    \cup {[kind |-> "text", cleaned_text |-> t] : t \in CleanedTexts}

\* extract_text_from_url: the text it returns, cut to PageLimit, or the
\* error whose message its HTTPException (status 400) carries
extract_text_from_url(outcome) ==
  IF outcome.kind = "raise"
    THEN [returned |-> <<>>, raised |-> outcome.error]
  ELSE IF Len(outcome.cleaned_text) > PageLimit
    THEN [returned |-> Take(outcome.cleaned_text,
        PageLimit) \o (* "..." *) <<46, 46, 46>>,
          raised |-> "none"]
  ELSE [returned |-> outcome.cleaned_text, raised |-> "none"]

\* the entry the command line's list command prints for one record (the
\* record has a name)
CliListEntry(rec) ==
  [name |-> rec["name"], test_type |-> Get(rec, "test_type",
      (* "Unknown" *) <<85, 110, 107, 110, 111, 119, 110>>)]

\* the words the command line takes as commands
CliCommands == {(* "exit" *) <<101, 120, 105, 116>>,
    (* "help" *) <<104, 101, 108, 112>>,
    (* "eval" *) <<101, 118, 97, 108>>, (* "list" *) <<108, 105, 115, 116>>}

\* a record with every field, and one without a name
SqlFull ==
  [name |-> (* "SQL Test" *) <<83, 81, 76, 32, 84, 101, 115, 116>>,
      url |-> (* "/sql" *) <<47, 115, 113, 108>>,
      description |-> (* "sql coding quiz" *) <<115, 113, 108, 32, 99, 111,
      100, 105, 110, 103, 32, 113, 117, 105, 122>>,
   remote_testing |-> (* "Yes" *) <<89, 101, 115>>,
       adaptive_irt |-> (* "No" *) <<78, 111>>,
   duration |-> (* "30 minutes" *) <<51, 48, 32, 109, 105, 110, 117, 116,
       101, 115>>, test_type |-> (* "Knowledge" *) <<75, 110, 111, 119, 108,
       101, 100, 103, 101>>]

Nameless == [description |-> (* "python basics" *) <<112, 121, 116, 104, 111,
    110, 32, 98, 97, 115, 105, 99, 115>>, url |-> (* "/anon" *) <<47, 97,
    110, 111, 110>>]

\* the collections behind the transport layers
TransportCollections ==
  {<<>>, CatalogList, <<SqlFull, PythonBare, JavaTest>>,
   <<SqlFull, Nameless, PythonBare>>}

\* request.url of the requests sent to /recommend: absent, empty, given
ApiUrls == {None, Some((* "" *) <<>>), Some((* "http://jobs/1" *) <<104, 116,
    116, 112, 58, 47, 47, 106, 111, 98, 115, 47, 49>>)}

\* request.query of the requests sent to /recommend
ApiRequests ==
  {(* "  sql coding " *) <<32, 32, 115, 113, 108, 32, 99, 111, 100, 105, 110,
      103, 32>>, (* "ab" *) <<97, 98>>,
      (* "  a  " *) <<32, 32, 97, 32, 32>>, (* "" *) <<>>,
      (* "generic skills test" *) <<103, 101, 110, 101, 114, 105, 99, 32,
      115, 107, 105, 108, 108, 115, 32, 116, 101, 115, 116>>,
   (* "max 10 min" *) <<109, 97, 120, 32, 49, 48, 32, 109, 105, 110>>,
       (* "python 45 minutes" *) <<112, 121, 116, 104, 111, 110, 32, 52, 53,
       32, 109, 105, 110, 117, 116, 101, 115>>}

\* the lines typed at the command line's prompt
CliInputs ==
  {(* "sql coding" *) <<115, 113, 108, 32, 99, 111, 100, 105, 110, 103>>,
      (* "python 45 minutes" *) <<112, 121, 116, 104, 111, 110, 32, 52, 53,
      32, 109, 105, 110, 117, 116, 101, 115>>,
      (* "generic skills test" *) <<103, 101, 110, 101, 114, 105, 99, 32,
      115, 107, 105, 108, 108, 115, 32, 116, 101, 115, 116>>,
      (* "help" *) <<104, 101, 108, 112>>,
   (* "EXIT" *) <<69, 88, 73, 84>>, (* "List" *) <<76, 105, 115, 116>>,
       (* "eval" *) <<101, 118, 97, 108>>}

(***************************************************************************)
(* State.                                                                  *)
(***************************************************************************)
VARIABLES
  pc,              \* the call in progress and its position
  query,           \* the query argument
  max_results,     \* process_query's max_results argument
  constraints,     \* the constraint set extracted or passed in
  search_results,  \* the list search returned
  assessments,     \* the assessments argument (filter / process_assessments)
  after_duration,  \* filtered after the duration stage
  after_skills,    \* filtered after the skills stage
  filtered,        \* the list filter_assessments returns
  result,          \* the list process_query returns
  engine,          \* the engine the QueryProcessor was built with
  collection,      \* the EmbeddingEngine's collection
  populated_by,    \* the record list of the call that populated collection
  query_outcome,   \* what collection.query did in the last search
  n_requested,     \* the n_results of the last search call
  trace,           \* the calls process_query has made, in order
  search_error,    \* the error the engine's search raised to process_query
  error,           \* the error raised to the caller of the call in progress
  caller,          \* the transport layer that called process_query
  response,        \* what the transport layer sent or printed
  url,             \* request.url of the /recommend request, None or a str
  url_outcome,     \* what fetching that url did
  loaded           \* self.assessments of the command line

vars ==
  <<pc, query, max_results, constraints, search_results, assessments,
    after_duration, after_skills, filtered, result, engine, collection,
    populated_by, query_outcome, n_requested, trace, search_error, error,
    caller, response, url, url_outcome, loaded>>

transport_vars == <<caller, response, url, url_outcome, loaded>>

NoResponse == [kind |-> "none"]

NoOutcome == [kind |-> "none"]

\* no transport layer: the method is called directly
DirectCall ==
  /\ caller = "none"
  /\ response = NoResponse
  /\ url = None
  /\ url_outcome = NoOutcome
  /\ loaded = <<>>

filter_vars == <<assessments, after_duration, after_skills, filtered>>

engine_vars == <<engine, collection, populated_by>>

\* nothing called yet: the locals of every method are unset
NothingCalled ==
  /\ query = <<>>
  /\ max_results = 0
  /\ constraints = EmptyDict
  /\ search_results = <<>>
  /\ assessments = <<>>
  /\ after_duration = <<>>
  /\ after_skills = <<>>
  /\ filtered = <<>>
  /\ result = <<>>
  /\ query_outcome = NoOutcome
  /\ n_requested = 0
  /\ trace = <<>>
  /\ search_error = "none"
  /\ error = "none"

\* a QueryProcessor built with an engine that is not modelled further
InjectedEngine ==
  /\ engine = "injected"
  /\ collection = <<>>
  /\ populated_by = <<>>

\* a call of extract_constraints(query)
InitExtract ==
  /\ pc = "extract_constraints"
  /\ query \in Queries
  /\ max_results = 0
  /\ constraints = EmptyDict
  /\ search_results = <<>>
  /\ assessments = <<>>
  /\ after_duration = <<>>
  /\ after_skills = <<>>
  /\ filtered = <<>>
  /\ result = <<>>
  /\ query_outcome = NoOutcome
  /\ n_requested = 0
  /\ trace = <<>>
  /\ search_error = "none"
  /\ error = "none"
  /\ InjectedEngine
  /\ DirectCall

\* a call of filter_assessments(assessments, constraints)
InitFilter ==
  /\ pc = "filter_assessments"
  /\ query = <<>>
  /\ max_results = 0
  /\ constraints \in ConstraintSets
  /\ search_results = <<>>
  /\ assessments \in AssessmentLists
  /\ after_duration = <<>>
  /\ after_skills = <<>>
  /\ filtered = <<>>
  /\ result = <<>>
  /\ query_outcome = NoOutcome
  /\ n_requested = 0
  /\ trace = <<>>
  /\ search_error = "none"
  /\ error = "none"
  /\ InjectedEngine
  /\ DirectCall

\* a call of process_query(query, max_results)
InitQuery ==
  /\ pc = "process_query"
  /\ query \in SampleQueries
  /\ max_results \in 1..MaxResults
  /\ constraints = EmptyDict
  /\ search_results = <<>>
  /\ assessments = <<>>
  /\ after_duration = <<>>
  /\ after_skills = <<>>
  /\ filtered = <<>>
  /\ result = <<>>
  /\ query_outcome = NoOutcome
  /\ n_requested = 0
  /\ trace = <<>>
  /\ search_error = "none"
  /\ error = "none"
  /\ InjectedEngine
  /\ DirectCall

\* a call of process_query(query, max_results) on a QueryProcessor built
\* with an EmbeddingEngine; max_results may exceed n_results
InitPipeline ==
  /\ pc = "process_query"
  /\ query \in SampleQueries
  /\ max_results \in (1..MaxResults) \cup {n_results + 2}
  /\ constraints = EmptyDict
  /\ search_results = <<>>
  /\ assessments = <<>>
  /\ after_duration = <<>>
  /\ after_skills = <<>>
  /\ filtered = <<>>
  /\ result = <<>>
  /\ query_outcome = NoOutcome
  /\ n_requested = 0
  /\ trace = <<>>
  /\ search_error = "none"
  /\ error = "none"
  /\ engine = "EmbeddingEngine"
  /\ collection \in PipelineCollections
  /\ populated_by = collection
  /\ DirectCall

\* an EmbeddingEngine after construction: the collection is loaded as an
\* earlier run left it, or created empty
InitEngine ==
  /\ pc = "engine_idle"
  /\ NothingCalled
  /\ engine = "EmbeddingEngine"
  /\ collection \in EngineLists
  /\ populated_by = collection
  /\ DirectCall

\* a request POSTed to /recommend, the engine built at import
InitApi ==
  /\ pc = "recommend_assessments"
  /\ query \in ApiRequests
  /\ max_results = 0
  /\ constraints = EmptyDict
  /\ search_results = <<>>
  /\ assessments = <<>>
  /\ after_duration = <<>>
  /\ after_skills = <<>>
  /\ filtered = <<>>
  /\ result = <<>>
  /\ query_outcome = NoOutcome
  /\ n_requested = 0
  /\ trace = <<>>
  /\ search_error = "none"
  /\ error = "none"
  /\ engine = "EmbeddingEngine"
  /\ collection \in TransportCollections
  /\ populated_by = collection
  /\ caller = "api"
  /\ response = NoResponse
  /\ url \in ApiUrls
  /\ url_outcome = NoOutcome
  /\ loaded = <<>>

\* a line typed at the prompt of interactive_mode
InitCli ==
  /\ pc = "interactive_mode"
  /\ query \in CliInputs
  /\ max_results = 0
  /\ constraints = EmptyDict
  /\ search_results = <<>>
  /\ assessments = <<>>
  /\ after_duration = <<>>
  /\ after_skills = <<>>
  /\ filtered = <<>>
  /\ result = <<>>
  /\ query_outcome = NoOutcome
  /\ n_requested = 0
  /\ trace = <<>>
  /\ search_error = "none"
  /\ error = "none"
  /\ engine = "EmbeddingEngine"
  /\ collection \in TransportCollections
  /\ populated_by = collection
  /\ caller = "cli"
  /\ response = NoResponse
  /\ url = None
  /\ url_outcome = NoOutcome
  /\ loaded \in TransportCollections

InitTransport == InitApi \/ InitCli

Init ==
  \/ InitExtract
  \/ InitFilter
  \/ InitQuery
  \/ InitPipeline
  \/ InitEngine
  \/ InitTransport

(***************************************************************************)
(* Actions.                                                                *)
(***************************************************************************)
\* extract_constraints runs and returns
ExtractConstraints ==
  /\ pc = "extract_constraints"
  /\ constraints' = extract_constraints(query)
  /\ pc' = "extract_done"
  /\ UNCHANGED <<query, max_results, search_results, assessments,
                 after_duration, after_skills, filtered, result>>
  /\ UNCHANGED <<engine_vars, query_outcome, n_requested, trace,
                 search_error, error>>
  /\ UNCHANGED transport_vars

\* filter_assessments runs and returns
FilterAssessments ==
  /\ pc = "filter_assessments"
  /\ after_duration' = DurationStage(assessments, constraints)
  /\ after_skills' = SkillsStage(after_duration', constraints)
  /\ filtered' = filter_assessments(assessments, constraints)
  /\ pc' = "filter_done"
  /\ UNCHANGED <<query, max_results, constraints, search_results,
                 assessments, result>>
  /\ UNCHANGED <<engine_vars, query_outcome, n_requested, trace,
                 search_error, error>>
  /\ UNCHANGED transport_vars

\* process_query, step 1: constraints = self.extract_constraints(query)
PQExtract ==
  /\ pc = "process_query"
  /\ constraints' = extract_constraints(query)
  /\ trace' = Append(trace, "extract_constraints")
  /\ pc' = "pq_search"
  /\ UNCHANGED <<query, max_results, search_results, assessments,
                 after_duration, after_skills, filtered, result>>
  /\ UNCHANGED <<engine_vars, query_outcome, n_requested, search_error,
                 error>>
  /\ UNCHANGED transport_vars

\* process_query, step 2, with an injected engine whose search returns
PQSearch ==
  /\ pc = "pq_search"
  /\ engine = "injected"
  /\ \E l \in SearchOutcomes(n_results) : search_results' = l
  /\ n_requested' = n_results
  /\ trace' = Append(trace, "search")
  /\ pc' = "pq_filter"
  /\ UNCHANGED <<query, max_results, constraints, assessments,
                 after_duration, after_skills, filtered, result>>
  /\ UNCHANGED <<engine_vars, query_outcome, search_error, error>>
  /\ UNCHANGED transport_vars

\* process_query, step 2, swallowing the error of the engine's search and
\* going on with an empty list
PQSearchRaisesSwallowed ==
  /\ pc = "pq_search"
  /\ engine = "injected"
  /\ \E e \in EngineErrors : search_error' = e
  /\ search_results' = <<>>
  /\ n_requested' = n_results
  /\ trace' = Append(trace, "search")
  /\ pc' = "pq_filter"
  /\ UNCHANGED <<query, max_results, constraints, assessments,
                 after_duration, after_skills, filtered, result>>
  /\ UNCHANGED <<engine_vars, query_outcome, error>>
  /\ UNCHANGED transport_vars

\* process_query, step 2, with an injected engine whose search raises:
\* nothing catches the error, process_query ends with it
PQSearchRaises ==
  /\ pc = "pq_search"
  /\ engine = "injected"
  /\ \E e \in EngineErrors : search_error' = e /\ error' = e
  /\ n_requested' = n_results
  /\ trace' = Append(trace, "search")
  /\ pc' = "pq_raised"
  /\ UNCHANGED <<query, max_results, constraints, search_results,
                 assessments, after_duration, after_skills, filtered, result>>
  /\ UNCHANGED <<engine_vars, query_outcome>>
  /\ UNCHANGED transport_vars

\* process_query, step 2, asking the EmbeddingEngine for max_results
\* records
PQSearchEmbeddingByMaxResults ==
  /\ pc = "pq_search"
  /\ engine = "EmbeddingEngine"
  /\ \E o \in QueryOutcomes(collection, max_results) :
       /\ query_outcome' = o
       /\ search_results' = EngineSearch(o).returned
  /\ n_requested' = max_results
  /\ trace' = Append(trace, "search")
  /\ pc' = "pq_filter"
  /\ UNCHANGED <<query, max_results, constraints, assessments,
                 after_duration, after_skills, filtered, result>>
  /\ UNCHANGED <<engine_vars, search_error, error>>
  /\ UNCHANGED transport_vars

\* process_query, step 2, with an EmbeddingEngine: its search never raises
PQSearchEmbedding ==
  /\ pc = "pq_search"
  /\ engine = "EmbeddingEngine"
  /\ \E o \in QueryOutcomes(collection, n_results) :
       /\ query_outcome' = o
       /\ search_results' = EngineSearch(o).returned
       /\ search_error' = EngineSearch(o).raised
       /\ error' = EngineSearch(o).raised
       /\ pc' = IF EngineSearch(o).raised = "none"
                  THEN "pq_filter" ELSE "pq_raised"
  /\ n_requested' = n_results
  /\ trace' = Append(trace, "search")
  /\ UNCHANGED <<query, max_results, constraints, assessments,
                 after_duration, after_skills, filtered, result>>
  /\ UNCHANGED engine_vars
  /\ UNCHANGED transport_vars

\* process_query, step 3: filtered_results =
\* self.filter_assessments(search_results, constraints)
PQFilter ==
  /\ pc = "pq_filter"
  /\ assessments' = search_results
  /\ after_duration' = DurationStage(search_results, constraints)
  /\ after_skills' = SkillsStage(after_duration', constraints)
  /\ filtered' = filter_assessments(search_results, constraints)
  /\ trace' = Append(trace, "filter_assessments")
  /\ pc' = "pq_return"
  /\ UNCHANGED <<query, max_results, constraints, search_results, result>>
  /\ UNCHANGED <<engine_vars, query_outcome, n_requested, search_error,
                 error>>
  /\ UNCHANGED transport_vars

\* process_query, step 4, raising IndexError when there is nothing to
\* return
PQReturnRaisesOnEmpty ==
  /\ pc = "pq_return"
  /\ IF filtered = <<>> /\ search_results = <<>>
       THEN error' = "IndexError" /\ pc' = "pq_raised" /\ result' = result
       ELSE /\ result' = TopResults(filtered, search_results, max_results)
            /\ pc' = "pq_done"
            /\ error' = error
  /\ UNCHANGED <<query, max_results, constraints, search_results>>
  /\ UNCHANGED <<filter_vars, engine_vars, query_outcome, n_requested, trace,
                 search_error>>
  /\ UNCHANGED transport_vars

\* process_query, step 4, indexing the first max_results candidates instead
\* of slicing: IndexError when there are fewer
PQReturnIndexing ==
  /\ pc = "pq_return"
  /\ IF Len(IF filtered # <<>> THEN filtered ELSE search_results)
          < max_results
       THEN error' = "IndexError" /\ pc' = "pq_raised" /\ result' = result
       ELSE /\ result' = TopResults(filtered, search_results, max_results)
            /\ pc' = "pq_done"
            /\ error' = error
  /\ UNCHANGED <<query, max_results, constraints, search_results>>
  /\ UNCHANGED <<filter_vars, engine_vars, query_outcome, n_requested, trace,
                 search_error>>
  /\ UNCHANGED transport_vars

\* process_query, step 4: the return statement
PQReturn ==
  /\ pc = "pq_return"
  /\ result' = TopResults(filtered, search_results, max_results)
  /\ pc' = "pq_done"
  /\ UNCHANGED <<query, max_results, constraints, search_results,
                 assessments, after_duration, after_skills, filtered>>
  /\ UNCHANGED <<engine_vars, query_outcome, n_requested, trace,
                 search_error, error>>
  /\ UNCHANGED transport_vars

ProcessQuery ==
  PQExtract \/ PQSearch \/ PQSearchRaises \/ PQFilter \/ PQReturn

\* process_query on a QueryProcessor built with an EmbeddingEngine
ProcessQueryEmbedding ==
  PQExtract \/ PQSearchEmbedding \/ PQFilter \/ PQReturn

\* the positions between two calls on the engine
EngineIdle ==
  {"engine_idle", "process_assessments_done", "process_assessments_raised",
   "search_done"}

\* EmbeddingEngine.process_assessments(assessments) runs and returns, or
\* raises what collection.count() raised
ProcessAssessments ==
  /\ pc \in EngineIdle
  /\ \E a \in EngineLists, count_raises \in {"none"} \cup EngineErrors,
        add_ok \in BOOLEAN :
       LET after == process_assessments(collection, a, count_raises, add_ok)
       IN  /\ assessments' = a
           /\ collection' = after.collection
           /\ error' = after.raised
           /\ pc' = IF after.raised = "none"
                      THEN "process_assessments_done"
                      ELSE "process_assessments_raised"
           /\ populated_by' =
                IF collection = <<>> /\ after.collection # <<>>
                  THEN a ELSE populated_by
  /\ search_results' = <<>>
  /\ query_outcome' = NoOutcome
  /\ n_requested' = 0
  /\ UNCHANGED <<query, max_results, constraints, after_duration,
                 after_skills, filtered, result, engine, trace, search_error>>
  /\ UNCHANGED transport_vars

\* EmbeddingEngine.search(query, n_results) runs and returns or raises
Search ==
  /\ pc \in EngineIdle
  /\ \E n \in SearchSizes : \E o \in QueryOutcomes(collection, n) :
       /\ n_requested' = n
       /\ query_outcome' = o
       /\ search_results' = EngineSearch(o).returned
       /\ error' = EngineSearch(o).raised
  /\ pc' = "search_done"
  /\ assessments' = <<>>
  /\ UNCHANGED <<query, max_results, constraints, after_duration,
                 after_skills, filtered, result, engine_vars, trace,
                 search_error>>
  /\ UNCHANGED transport_vars

Engine == ProcessAssessments \/ Search

\* /recommend: the query is stripped, the text of the page at request.url
\* is appended when a url is given, the length is checked, then
\* process_query is called with max_results=10
ApiRecommend ==
  /\ pc = "recommend_assessments"
  /\ caller = "api"
  /\ \E o \in (IF url # None /\ url[1] # <<>>
                 THEN UrlOutcomes ELSE {NoOutcome}) :
       LET stripped == Strip(query)
           query_text ==
             IF o = NoOutcome THEN stripped
             ELSE IF stripped # <<>>
               THEN stripped \o (* " " *) <<32>>
                      \o extract_text_from_url(o).returned
             ELSE extract_text_from_url(o).returned
       IN  /\ url_outcome' = o
           /\ IF o # NoOutcome /\ extract_text_from_url(o).raised # "none"
                THEN /\ response' =
                          [status |-> 400,
                           detail |->
                             [prefix |-> "URL error: ",
                              error |-> extract_text_from_url(o).raised]]
                     /\ pc' = "recommend_done"
                     /\ UNCHANGED <<query, max_results>>
              ELSE IF query_text = <<>> \/ Len(query_text) < 3
                THEN /\ response' =
                          [status |-> 400,
                           detail |->
                             "Query must be at least 3 characters long."]
                     /\ pc' = "recommend_done"
                     /\ UNCHANGED <<query, max_results>>
              ELSE /\ query' = query_text
                   /\ max_results' = ApiMaxResults
                   /\ pc' = "process_query"
                   /\ UNCHANGED response
  /\ UNCHANGED <<constraints, search_results, filter_vars, result,
                 engine_vars, query_outcome, n_requested, trace,
                 search_error, error, caller, url, loaded>>

\* /recommend answering an empty result with an empty success
ApiRespondEmptySuccess ==
  /\ pc \in {"pq_done", "pq_raised"}
  /\ caller = "api"
  /\ response' =
       IF pc = "pq_raised"
         THEN [status |-> 500, detail |-> "Internal server error"]
         ELSE [status |-> 200,
               recommendations |->
                 [i \in DOMAIN result |-> AssessmentResponse(result[i])]]
  /\ pc' = "recommend_done"
  /\ UNCHANGED <<query, max_results, constraints, search_results,
                 filter_vars, result, engine_vars, query_outcome,
                 n_requested, trace, search_error, error, caller, url,
                 url_outcome, loaded>>

\* /recommend after process_query: 404 for an empty list, else the
\* RecommendResponse; an error of process_query becomes a 500
ApiRespond ==
  /\ pc \in {"pq_done", "pq_raised"}
  /\ caller = "api"
  /\ response' =
       IF pc = "pq_raised"
         THEN [status |-> 500, detail |-> "Internal server error"]
       ELSE IF result = <<>>
         THEN [status |-> 404,
               content |-> [detail |-> "No relevant assessments found"]]
       ELSE [status |-> 200,
             recommendations |->
               [i \in DOMAIN result |-> AssessmentResponse(result[i])]]
  /\ pc' = "recommend_done"
  /\ UNCHANGED <<query, max_results, constraints, search_results,
                 filter_vars, result, engine_vars, query_outcome,
                 n_requested, trace, search_error, error, caller, url,
                 url_outcome, loaded>>

\* interactive_mode: a command word is handled without a search; list
\* prints the name and test type of the loaded records until a record
\* without a name raises KeyError
CliCommand ==
  /\ pc = "interactive_mode"
  /\ caller = "cli"
  /\ Lower(query) \in CliCommands
  /\ IF Lower(query) = (* "list" *) <<108, 105, 115, 116>>
       THEN /\ response' =
                 [command |-> Lower(query),
                  listed |->
                    [i \in 1..PrintedCount(loaded) |->
                       CliListEntry(loaded[i])]]
            /\ error' =
                 IF PrintedCount(loaded) < Len(loaded)
                   THEN "KeyError" ELSE error
            /\ pc' =
                 IF PrintedCount(loaded) < Len(loaded)
                   THEN "interactive_raised" ELSE "interactive_done"
       ELSE /\ response' = [command |-> Lower(query)]
            /\ pc' = "interactive_done"
            /\ UNCHANGED error
  /\ UNCHANGED <<query, max_results, constraints, search_results,
                 filter_vars, result, engine_vars, query_outcome,
                 n_requested, trace, search_error, caller, url, url_outcome,
                 loaded>>

\* interactive_mode: anything else is searched; the constraints are
\* extracted and printed, then process_query(query) is called
CliSearch ==
  /\ pc = "interactive_mode"
  /\ caller = "cli"
  /\ Lower(query) \notin CliCommands
  /\ constraints' = extract_constraints(query)
  /\ max_results' = DefaultMaxResults
  /\ pc' = "process_query"
  /\ UNCHANGED <<query, search_results, filter_vars, result, engine_vars,
                 query_outcome, n_requested, trace, search_error, error,
                 transport_vars>>

\* interactive_mode after process_query: the count and one entry per
\* record are printed, until a record without a name raises KeyError
CliPrint ==
  /\ pc \in {"pq_done", "pq_raised"}
  /\ caller = "cli"
  /\ IF pc = "pq_raised"
       THEN UNCHANGED <<response, error>>
       ELSE /\ response' =
                 [found |-> Len(result),
                  entries |->
                    [i \in 1..PrintedCount(result) |-> CliEntry(result[i])]]
            /\ error' =
                 IF PrintedCount(result) < Len(result)
                   THEN "KeyError" ELSE error
  /\ pc' =
       IF pc = "pq_raised" \/ PrintedCount(result) < Len(result)
         THEN "interactive_raised" ELSE "interactive_done"
  /\ UNCHANGED <<query, max_results, constraints, search_results,
                 filter_vars, result, engine_vars, query_outcome,
                 n_requested, trace, search_error, caller, url, url_outcome,
                 loaded>>

\* interactive_mode: the loop asks for the next line after every line but
\* exit; its locals constraints and results stay bound, the frames of the
\* calls it made are gone
CliPrompt ==
  /\ pc = "interactive_done"
  /\ caller = "cli"
  /\ response # [command |-> (* "exit" *) <<101, 120, 105, 116>>]
  /\ \E line \in CliInputs : query' = line
  /\ pc' = "interactive_mode"
  /\ max_results' = 0
  /\ search_results' = <<>>
  /\ assessments' = <<>>
  /\ after_duration' = <<>>
  /\ after_skills' = <<>>
  /\ filtered' = <<>>
  /\ query_outcome' = NoOutcome
  /\ n_requested' = 0
  /\ trace' = <<>>
  /\ search_error' = "none"
  /\ response' = NoResponse
  /\ UNCHANGED <<constraints, result, engine_vars, error, caller, url,
                 url_outcome, loaded>>

Transport ==
  \/ ApiRecommend
  \/ ApiRespond
  \/ CliCommand
  \/ CliSearch
  \/ CliPrint
  \/ CliPrompt

Next ==
  \/ ExtractConstraints
  \/ FilterAssessments
  \/ ProcessQuery
  \/ ProcessQueryEmbedding
  \/ Engine
  \/ Transport

Spec == Init /\ [][Next]_vars

\* calls of extract_constraints alone
SpecExtract == InitExtract /\ [][ExtractConstraints]_vars

\* calls of filter_assessments alone
SpecFilter == InitFilter /\ [][FilterAssessments]_vars

\* calls of process_query alone, the engine injected
SpecQuery == InitQuery /\ [][ProcessQuery]_vars

\* calls of process_query with an EmbeddingEngine behind it
SpecPipeline == InitPipeline /\ [][ProcessQueryEmbedding]_vars

\* an EmbeddingEngine and the calls made on it
SpecEngine == InitEngine /\ [][Engine]_vars

\* the transport layers over process_query and an EmbeddingEngine
SpecTransport == InitTransport /\ [][Transport \/ ProcessQueryEmbedding]_vars

(***************************************************************************)
(* Properties.                                                             *)
(***************************************************************************)
\* filter_assessments has returned (called directly or by process_query)
FilterReturned == pc \in {"filter_done", "pq_return", "pq_done"}

\* the record a satisfies the duration constraint of c, if c has one
DurationAdmits(a, c) ==
  IF "max_duration" \in DOMAIN c
    THEN HasParsedDuration(a) /\ FirstInt(a["duration"]) <= c["max_duration"]
  ELSE IF "duration" \in DOMAIN c
    THEN HasParsedDuration(a) /\ FirstInt(a["duration"]) = c["duration"]
  ELSE TRUE

\* C1 as stated: filter_assessments returns a non-empty list whenever its
\* input list is non-empty, for every constraint set.
C1_NeverEmptiesNonEmptyInput ==
  (FilterReturned /\ assessments # <<>>) => filtered # <<>>

\* C1 amended: only the skills and test-type stages are skipped when they
\* would eliminate every candidate; the list filter_assessments returns is
\* non-empty exactly when some input record satisfies the duration
\* constraint (any record does when neither max_duration nor duration is
\* set).  So inside process_query the filtered result is empty exactly when
\* the search returned nothing or no candidate satisfies the duration
\* constraint.
C1_NonEmptyIffDurationAdmitsSome ==
  FilterReturned =>
    (filtered # <<>> <=>
       \E i \in DOMAIN assessments : DurationAdmits(assessments[i],
           constraints))

\* C1 witness: the test-type stage matched nothing and was skipped
C1_Witness ==
  /\ FilterReturned
  /\ "test_types" \in DOMAIN constraints
  /\ constraints["test_types"] # <<>>
  /\ after_skills # <<>>
  /\ \A i \in DOMAIN after_skills :
       ~TypeMatch(after_skills[i], constraints["test_types"])
  /\ filtered = after_skills

\* C2: with max_duration = d, every record filter_assessments returns has a
\* duration field with a parseable integer <= d, also when a later stage
\* falls back; records with a missing or unparseable duration are never
\* returned.
C2_MaxDurationHolds ==
  (pc = "filter_done" /\ "max_duration" \in DOMAIN constraints) =>
    \A i \in DOMAIN filtered :
      /\ "duration" \in DOMAIN filtered[i]
      /\ \E n \in DOMAIN filtered[i]["duration"] :
           IsDigit(filtered[i]["duration"][n])
      /\ FirstInt(filtered[i]["duration"]) <= constraints["max_duration"]

\* C2 witness: max_duration is set, the input holds a record with a missing
\* or unparseable duration, the skills stage fell back, and records are
\* returned
C2_Witness ==
  /\ pc = "filter_done"
  /\ "max_duration" \in DOMAIN constraints
  /\ \E i \in DOMAIN assessments : ~HasParsedDuration(assessments[i])
  /\ "skills" \in DOMAIN constraints
  /\ constraints["skills"] # <<>>
  /\ \A i \in DOMAIN after_duration :
       ~SkillMatch(after_duration[i], constraints["skills"])
  /\ filtered # <<>>

\* the engine's search was called by process_query and returned a list
SearchReturned ==
  /\ Len(trace) >= 2
  /\ trace[2] = "search"
  /\ search_error = "none"

\* C3: process_query returns at most max_results records; and when the
\* search returned fewer records than max_results or than the number
\* requested, no later step raises and process_query returns normally, with
\* the whole filtered list or the whole search result when the search
\* returned fewer than max_results.
C3_AtMostMaxResults ==
  /\ pc = "pq_done" =>
       /\ Len(result) <= max_results
       /\ Len(result) <= Len(search_results)
  /\ ( /\ SearchReturned
       /\ \/ Len(search_results) < max_results
          \/ Len(search_results) < n_requested ) =>
       /\ error = "none"
       /\ pc # "pq_raised"
       /\ (pc = "pq_done" /\ Len(search_results) < max_results) =>
            result \in {filtered, search_results}

\* C3 witness: the search returned records, but fewer than max_results and
\* fewer than requested; process_query returned all of them without error
C3_Witness ==
  /\ pc = "pq_done"
  /\ SearchReturned
  /\ search_results # <<>>
  /\ Len(search_results) < max_results
  /\ Len(search_results) < n_requested
  /\ result = search_results
  /\ error = "none"

\* a call where more candidates than max_results passed the filter and the
\* result was cut to max_results
C3_Truncated ==
  /\ pc = "pq_done"
  /\ Len(filtered) > max_results
  /\ Len(result) = max_results

\* s is the first n entries of t (all of t when t is shorter)
IsPrefixOfLength(s, t, n) ==
  /\ Len(s) = (IF n < Len(t) THEN n ELSE Len(t))
  /\ \A i \in DOMAIN s : s[i] = t[i]

\* C4: process_query returns the first max_results entries of the filtered
\* list, in filtered order, when that list is non-empty, and otherwise the
\* first max_results entries of the raw search results; with an empty
\* constraint set the result is the raw search prefix.
C4_PrefixOfFilteredElseSearch ==
  pc = "pq_done" =>
    /\ filtered # <<>> => IsPrefixOfLength(result, filtered, max_results)
    /\ filtered = <<>> => IsPrefixOfLength(result, search_results,
        max_results)
    /\ constraints = EmptyDict =>
         IsPrefixOfLength(result, search_results, max_results)

\* C4 witness: the filter emptied a non-empty search result and the raw
\* prefix is returned
C4_Witness ==
  /\ pc = "pq_done"
  /\ search_results # <<>>
  /\ filtered = <<>>
  /\ result # <<>>

\* C5: extract_constraints never sets both max_duration and duration: when a
\* bounded-time phrase matches, max_duration is its integer and duration is
\* absent even if a bare "<int> minutes" occurs; duration is set only when
\* no bounded phrase matches.
C5_MaxDurationExcludesDuration ==
  pc = "extract_done" =>
    /\ ~/\ "max_duration" \in DOMAIN constraints
        /\ "duration" \in DOMAIN constraints
    /\ max_time_match(Lower(query)) =>
         /\ "max_duration" \in DOMAIN constraints
         /\ constraints["max_duration"] = MaxTimeValue(Lower(query))
         /\ "duration" \notin DOMAIN constraints
    /\ "duration" \in DOMAIN constraints => ~max_time_match(Lower(query))
    /\ query = (* "under 20 Minutes 30 minutes " *) <<117, 110, 100, 101,
        114, 32, 50, 48, 32, 77, 105, 110, 117, 116, 101, 115, 32, 51, 48,
        32, 109, 105, 110, 117, 116, 101, 115, 32>> =>
         constraints = [max_duration |-> 20]

\* C5 witness: "under 20 Minutes" and "30 minutes" both occur
C5_Witness ==
  /\ pc = "extract_done"
  /\ query = (* "under 20 Minutes 30 minutes " *) <<117, 110, 100, 101, 114,
      32, 50, 48, 32, 77, 105, 110, 117, 116, 101, 115, 32, 51, 48, 32, 109,
      105, 110, 117, 116, 101, 115, 32>>
  /\ time_match(query)
  /\ "max_duration" \in DOMAIN constraints

\* C6 as stated: extract_constraints gives the same constraint set for a
\* query and for a variant of it that differs only in letter case (here the
\* lower-cased query).
C6_CaseInsensitive ==
  pc = "extract_done" => extract_constraints(Lower(query)) = constraints

\* the skill vocabulary as plain tokens
SkillTokens ==
  { (* "java" *) <<106, 97, 118, 97>>,
      (* "python" *) <<112, 121, 116, 104, 111, 110>>,
      (* "javascript" *) <<106, 97, 118, 97, 115, 99, 114, 105, 112, 116>>,
      (* "js" *) <<106, 115>>, (* "sql" *) <<115, 113, 108>>,
      (* "react" *) <<114, 101, 97, 99, 116>>,
    (* "angular" *) <<97, 110, 103, 117, 108, 97, 114>>,
        (* "node" *) <<110, 111, 100, 101>>, (* "c++" *) <<99, 43, 43>>,
        (* "c#" *) <<99, 35>> }

\* token occurs in s with no word character right before or right after it
OccursAsWord(token, s) ==
  \E i \in 1..Len(s) :
    /\ LiteralAt(s, i, token)
    /\ i = 1 \/ ~IsWordChar(s[i - 1])
    /\ i + Len(token) > Len(s) \/ ~IsWordChar(s[i + Len(token)])

\* the tokens of the skills field (a stored "c\+\+" counts as "c++")
SkillsFound(c) ==
  {PatternLiteral(Get(c, "skills", <<>>)[n]) :
     n \in DOMAIN Get(c, "skills", <<>>)}

\* C7 as stated: the skills field contains a vocabulary token if and only if
\* the token occurs in the query as a case-insensitive whole word; "c++" or
\* "c#" followed by a space, punctuation or the end of the query is found.
C7_SkillsAreWholeWordTokens ==
  pc = "extract_done" =>
    \A token \in SkillTokens :
      token \in SkillsFound(constraints) <=> OccursAsWord(token, Lower(query))

C9_EmptyConstraintsIdentity ==
  (pc = "filter_done" /\ constraints = EmptyDict) => filtered = assessments

\* C9 witness: an empty constraint set and a list with distinct records, one
\* of them without a duration
C9_Witness ==
  /\ pc = "filter_done"
  /\ constraints = EmptyDict
  /\ Len(assessments) >= 2
  /\ assessments[1] # assessments[2]
  /\ \E i \in DOMAIN assessments : "duration" \notin DOMAIN assessments[i]
  /\ filtered = assessments

\* a is a subsequence of b
RECURSIVE IsSubsequence(_, _)
IsSubsequence(a, b) ==
  IF a = <<>> THEN TRUE
  ELSE IF b = <<>> THEN FALSE
  ELSE IF Head(a) = Head(b) THEN IsSubsequence(Tail(a), Tail(b))
  ELSE IsSubsequence(a, Tail(b))

\* C10: filter_assessments leaves its input list and the records in it
\* unchanged, and the list it returns is a subsequence of the input: input
\* records only, none more often than in the input, in the input's order.
C10_InputKeptOutputSubsequence ==
  [][pc = "filter_assessments" =>
       /\ assessments' = assessments
       /\ IsSubsequence(filtered', assessments)]_vars

\* C10 witness: a call that dropped some records and kept at least two
C10_Witness ==
  /\ pc = "filter_done"
  /\ Len(filtered) >= 2
  /\ Len(filtered) < Len(assessments)

\* C11: when the search returns an empty list, process_query raises no error
\* at any later step and the list it returns is empty, whatever the query
\* and max_results >= 1.
C11_EmptySearchEmptyResultNoError ==
  (SearchReturned /\ search_results = <<>>) =>
    /\ error = "none"
    /\ pc # "pq_raised"
    /\ pc = "pq_done" => result = <<>>

\* C11 witness: process_query returned after an empty search although the
\* query carried constraints
C11_Witness ==
  /\ pc = "pq_done"
  /\ SearchReturned
  /\ search_results = <<>>
  /\ constraints # EmptyDict
  /\ max_results >= 1
  /\ result = <<>>
  /\ error = "none"

\* C12: a process_assessments call on a populated collection leaves its
\* contents unchanged, whatever list it is given and whether it returns or
\* raises; a call with an empty list changes nothing; so the collection
\* always holds exactly the records of the first call that populated it.
C12_IndexingIdempotent ==
  [][pc' \in {"process_assessments_done", "process_assessments_raised"} =>
       /\ collection # <<>> => collection' = collection
       /\ assessments' = <<>> => collection' = collection
       /\ collection' = populated_by']_vars

\* C12 witness: a later call with a different non-empty list left the
\* populated collection as it was
C12_Witness ==
  /\ pc = "process_assessments_done"
  /\ collection # <<>>
  /\ assessments # <<>>
  /\ assessments # collection
  /\ collection = populated_by

\* collection.query returned results with metadata for the query
YieldsMetadata(o) ==
  /\ o.kind = "results"
  /\ o.results # EmptyDict
  /\ "metadatas" \in DOMAIN o.results
  /\ o.results["metadatas"] # <<>>

\* C13: EmbeddingEngine.search raises no error; it returns an empty list
\* when the collection is empty, when the query yields no metadata and when
\* collection.query fails, and otherwise the stored records of the single
\* query's result, at most n_results of them.
C13_SearchNeverRaises ==
  pc = "search_done" =>
    /\ error = "none"
    /\ collection = <<>> => search_results = <<>>
    /\ query_outcome.kind = "raise" => search_results = <<>>
    /\ IF YieldsMetadata(query_outcome)
         THEN /\ search_results = query_outcome.results["metadatas"][1]
              /\ Len(search_results) <= n_requested
              /\ \A i \in DOMAIN search_results :
                   \E k \in DOMAIN collection :
                     search_results[i] = collection[k]
         ELSE search_results = <<>>

\* C13 witness: collection.query failed on a populated collection and search
\* returned an empty list
C13_Witness ==
  /\ pc = "search_done"
  /\ collection # <<>>
  /\ query_outcome.kind = "raise"
  /\ search_results = <<>>
  /\ error = "none"

\* the number of entries of s equal to x
Count(s, x) == Cardinality({i \in DOMAIN s : s[i] = x})

\* C14: when the injected engine's search raises, process_query has called
\* search exactly once, goes no further (no filter, no list returned) and
\* ends with that same error.
C14_SearchErrorPropagates ==
  search_error # "none" =>
    /\ pc = "pq_raised"
    /\ error = search_error
    /\ Count(trace, "search") = 1
    /\ trace = <<"extract_constraints", "search">>
    /\ result = <<>>

\* C14 witness: the injected engine's search raised ValueError and
\* process_query ended with ValueError
C14_Witness ==
  /\ pc = "pq_raised"
  /\ engine = "injected"
  /\ search_error = "ValueError"
  /\ error = "ValueError"
  /\ Count(trace, "search") = 1

\* a type token is a substring of the lower-cased test_type or a whole word
\* of the lower-cased description
TypeTokenMatches(a, types) ==
  \E n \in DOMAIN types :
    \/ "test_type" \in DOMAIN a /\ Contains(Lower(a["test_type"]), types[n])
    \/ /\ "description" \in DOMAIN a
       /\ OccursAsWord(types[n], Lower(a["description"]))

\* C17: with test_types set, when some record left by the skills stage
\* matches a type token the returned list is exactly the matching records in
\* order; when none matches it is the skills stage's list untouched.
C17_TypesStageMatchesOrFallsBack ==
  (pc = "filter_done" /\ "test_types" \in DOMAIN constraints
     /\ constraints["test_types"] # <<>>) =>
    IF \E i \in DOMAIN after_skills :
         TypeTokenMatches(after_skills[i], constraints["test_types"])
      THEN filtered =
             SelectSeq(after_skills, LAMBDA a :
               TypeTokenMatches(a, constraints["test_types"]))
      ELSE filtered = after_skills

\* C17 witness: the type token matched the test_type "Coding" of one record
\* only through lower-casing, and the other records were dropped
C17_Witness ==
  /\ pc = "filter_done"
  /\ "test_types" \in DOMAIN constraints
  /\ constraints["test_types"] # <<>>
  /\ Len(after_skills) >= 2
  /\ filtered = <<JavaScriptSim>>

\* C18: with duration = n and no max_duration the duration stage keeps
\* exactly the records whose duration field has a parsed integer (its first
\* digit run) equal to n; with neither set it keeps every record.
C18_ExactDurationStage ==
  pc = "filter_done" =>
    /\ ("duration" \in DOMAIN constraints
          /\ "max_duration" \notin DOMAIN constraints) =>
         after_duration =
           SelectSeq(assessments, LAMBDA a :
             /\ "duration" \in DOMAIN a
             /\ FirstDigitPos(a["duration"]) # 0
             /\ FirstInt(a["duration"]) = constraints["duration"])
    /\ ("duration" \notin DOMAIN constraints
          /\ "max_duration" \notin DOMAIN constraints) =>
         after_duration = assessments

\* C18 witness: duration = 25 kept the record of 25 minutes and dropped one
\* of 20 minutes and one without a parseable duration
C18_Witness ==
  /\ pc = "filter_done"
  /\ "duration" \in DOMAIN constraints
  /\ "max_duration" \notin DOMAIN constraints
  /\ constraints["duration"] = 25
  /\ after_duration = <<Numerical>>
  /\ \E i \in DOMAIN assessments : assessments[i] = JavaTest
  /\ \E i \in DOMAIN assessments : ~HasParsedDuration(assessments[i])

\* C19: a process_query call makes, in order, one extraction, one search
\* asking for n_results = 20 records whatever max_results is, and one
\* filter; the list it returns has at most 20 records.
C19_OneSearchOfTwenty ==
  /\ n_requested \in {0, n_results}
  /\ Count(trace, "search") <= 1
  /\ pc = "pq_done" =>
       /\ trace = <<"extract_constraints", "search", "filter_assessments">>
       /\ n_requested = n_results
       /\ assessments = search_results
       /\ Len(result) <= n_results

\* C19 witness: max_results above 20 on a collection of more than 20 records
\* returned exactly 20
C19_Witness ==
  /\ pc = "pq_done"
  /\ max_results > n_results
  /\ Len(collection) > n_results
  /\ Len(result) = n_results

\* C20: when the search returned at least one record, process_query returns
\* at least one record, whatever the query and max_results >= 1.
C20_NonEmptySearchNonEmptyResult ==
  (pc = "pq_done" /\ search_results # <<>> /\ max_results >= 1) =>
    result # <<>>

\* C20 witness: a max_duration no candidate meets left the filter empty and
\* the call still returned a record
C20_Witness ==
  /\ pc = "pq_done"
  /\ "max_duration" \in DOMAIN constraints
  /\ Len(search_results) >= 2
  /\ filtered = <<>>
  /\ Len(result) >= 1

\* the optional fields of an assessment record
OptionalFields ==
  {"url", "remote_testing", "adaptive_irt", "duration", "test_type"}

\* /recommend answered after process_query returned
ApiAnswered ==
  /\ caller = "api"
  /\ pc = "recommend_done"
  /\ trace # <<>>
  /\ error = "none"

\* C15: /recommend answers an empty list from process_query with status 404
\* (not 500, not a success), and a non-empty list with a success carrying
\* one entry per returned record, in the same order.
C15_EmptyIs404ElseOneEntryEach ==
  ApiAnswered =>
    IF result = <<>>
      THEN response.status = 404
      ELSE /\ response.status = 200
           /\ Len(response.recommendations) = Len(result)
           /\ \A i \in DOMAIN result :
                \A f \in (OptionalFields \cup {"name"}) \cap DOMAIN result[i] :
                  response.recommendations[i][f] = result[i][f]

\* C15 witness: a search that yielded nothing on a populated collection was
\* answered with 404
C15_Witness ==
  /\ ApiAnswered
  /\ collection # <<>>
  /\ result = <<>>
  /\ response.status = 404

\* the entries a transport layer sent or printed for the returned records
Serialized ==
  IF caller = "api" /\ pc = "recommend_done" /\ response.status = 200
    THEN response.recommendations
  ELSE IF caller = "cli"
            /\ pc \in {"interactive_done", "interactive_raised"}
            /\ "entries" \in DOMAIN response
    THEN response.entries
  ELSE <<>>

\* C16 as stated: every optional field absent from a returned record is
\* serialized as "Unknown", in the HTTP response and in the CLI output.
C16_AbsentFieldsUnknown ==
  \A i \in DOMAIN Serialized :
    \A f \in OptionalFields \ DOMAIN result[i] :
      Serialized[i][f] = (* "Unknown" *) <<85, 110, 107, 110, 111, 119, 110>>

\* C16, amended: an absent url is serialized as "#" and an absent
\* remote_testing, adaptive_irt, duration or test_type as "Unknown", in every
\* entry of the HTTP response and every entry the CLI prints; a field that is
\* present is passed through.
C16_AbsentUrlHashOthersUnknown ==
  \A i \in DOMAIN Serialized :
    \A f \in OptionalFields :
      Serialized[i][f] =
        IF f \in DOMAIN result[i] THEN result[i][f]
        ELSE IF f = "url" THEN (* "#" *) <<35>>
        ELSE (* "Unknown" *) <<85, 110, 107, 110, 111, 119, 110>>

\* C16 witness: the CLI printed a record that has only a name, with "#" for
\* its url and "Unknown" for its duration, next to a record with every field
C16_Witness ==
  /\ caller = "cli"
  /\ pc = "interactive_done"
  /\ Len(Serialized) >= 2
  /\ \E i \in DOMAIN Serialized :
       /\ result[i] = PythonBare
       /\ Serialized[i].url = (* "#" *) <<35>>
       /\ Serialized[i].duration = (* "Unknown" *) <<85, 110, 107, 110, 111,
           119, 110>>
  /\ \E i \in DOMAIN Serialized : result[i] = SqlFull

\* the record has a duration whose parsed integer is at most d
WithinBound(a, d) ==
  /\ "duration" \in DOMAIN a
  /\ FirstDigitPos(a["duration"]) # 0
  /\ FirstInt(a["duration"]) <= d

\* C21: with max_duration = d extracted from the query, when some search
\* candidate has a parsed duration <= d every record process_query returns
\* has one (and something is returned); only when no candidate has one is
\* the result the raw search prefix, outside the bound.
C21_WithinBoundUnlessNoCandidate ==
  (pc = "pq_done" /\ "max_duration" \in DOMAIN constraints) =>
    IF \E i \in DOMAIN search_results :
         WithinBound(search_results[i], constraints["max_duration"])
      THEN /\ result # <<>>
           /\ \A i \in DOMAIN result :
                WithinBound(result[i], constraints["max_duration"])
      ELSE IsPrefixOfLength(result, search_results, max_results)

\* C21 witness: the search returned a record within the bound and one
\* outside it, and only records within the bound were returned
C21_Witness ==
  /\ pc = "pq_done"
  /\ "max_duration" \in DOMAIN constraints
  /\ \E i \in DOMAIN search_results :
       WithinBound(search_results[i], constraints["max_duration"])
  /\ \E i \in DOMAIN search_results :
       /\ HasParsedDuration(search_results[i])
       /\ ~WithinBound(search_results[i], constraints["max_duration"])
  /\ result # <<>>
  /\ \A i \in DOMAIN result :
       WithinBound(result[i], constraints["max_duration"])

====
